---- MODULE Spec2Model ----
(***************************************************************************)
(* Event chain executor of AgentOS (modules/eventbus/event_chain.py) with  *)
(* the collaborators it calls: the concurrent event bus                    *)
(* (modules/eventbus/event_bus.py), the parameter interpolator             *)
(* (modules/eventbus/parameter_interpolator.py) and the thread manager     *)
(* with its storage (modules/providers/thread_manager.py,                  *)
(* modules/persistence/thread_storage.py).                                 *)
(*                                                                         *)
(* Python values are tagged records.  A string is a sequence of            *)
(* characters; the alphabet has the characters the code tells apart        *)
(* ("{", "}", ".", "[", "]", "-", the digits) and a few opaque symbols     *)
(* written as words ("tools", "result", ...), each of which stands for one *)
(* character that is none of the special ones.                             *)
(***************************************************************************)
EXTENDS Integers, Sequences, FiniteSets, TLC

----------------------------------------------------------------------------
(* Python values *)

None == [k |-> "none"]
Str(s) == [k |-> "str", s |-> s]
Num(n) == [k |-> "int", n |-> n]
Bool(b) == [k |-> "bool", b |-> b]
Dict(d) == [k |-> "dict", d |-> d]
List(l) == [k |-> "list", l |-> l]

EmptyMap == [x \in {} |-> None]
EmptyDict == Dict(EmptyMap)

IsDict(v) == v.k = "dict"
IsList(v) == v.k = "list"
IsStr(v) == v.k = "str"
IsNum(v) == v.k = "int"

\* key in d, d[key], d[key] = val and {**d, **e} on the maps under Dict
HasKey(v, key) == IsDict(v) /\ key \in DOMAIN v.d
Get(v, key) == v.d[key]
MapSet(m, key, val) == [x \in (DOMAIN m) \cup {key} |-> IF x = key THEN val ELSE m[x]]
MapUpdate(m, e) == [x \in (DOMAIN m) \cup (DOMAIN e) |-> IF x \in DOMAIN e THEN e[x] ELSE m[x]]
DictSet(v, key, val) == Dict(MapSet(v.d, key, val))

\* Python truthiness of a value (bool(v))
Truthy(v) ==
    CASE v.k = "none" -> FALSE
      [] v.k = "str" -> v.s # <<>>
      [] v.k = "int" -> v.n # 0
      [] v.k = "bool" -> v.b
      [] v.k = "dict" -> DOMAIN v.d # {}
      [] v.k = "list" -> v.l # <<>>

\* the result of a computation that may raise
Ok(v) == [ok |-> TRUE, v |-> v]
Raise(type, msg) == [ok |-> FALSE, type |-> type, msg |-> msg]

----------------------------------------------------------------------------
(* ParameterInterpolator *)

Digit == {"0", "1", "2", "3", "4", "5", "6", "7", "8", "9"}
DigitVal(c) ==
    CASE c = "0" -> 0 [] c = "1" -> 1 [] c = "2" -> 2 [] c = "3" -> 3 [] c = "4" -> 4
      [] c = "5" -> 5 [] c = "6" -> 6 [] c = "7" -> 7 [] c = "8" -> 8 [] c = "9" -> 9

RECURSIVE DigitsVal(_)
DigitsVal(s) == IF s = <<>> THEN 0 ELSE 10 * DigitsVal(SubSeq(s, 1, Len(s) - 1)) + DigitVal(s[Len(s)])

\* int(index_str): an optional sign and at least one digit
ParseInt(s) ==
    LET body == IF s # <<>> /\ s[1] \in {"-", "+"} THEN Tail(s) ELSE s
        neg == s # <<>> /\ s[1] = "-"
    IN IF body # <<>> /\ \A i \in 1..Len(body) : body[i] \in Digit
       THEN Ok(IF neg THEN 0 - DigitsVal(body) ELSE DigitsVal(body))
       ELSE Raise("ValueError", "Invalid array index")

\* the first position >= i of character c in s, Len(s) + 1 when there is none
RECURSIVE FindChar(_, _, _)
FindChar(s, c, i) ==
    IF i > Len(s) THEN Len(s) + 1
    ELSE IF s[i] = c THEN i ELSE FindChar(s, c, i + 1)

SegKey(s) == [int |-> FALSE, s |-> s]
SegIdx(n) == [int |-> TRUE, n |-> n]

\* _parse_path: the loop from position i with the segments and the current
\* segment collected so far
RECURSIVE ParsePathFrom(_, _, _, _)
ParsePathFrom(path, i, segments, current) ==
    LET flushed == IF current # <<>> THEN Append(segments, SegKey(current)) ELSE segments
    IN IF i > Len(path) THEN Ok(flushed)
       ELSE IF path[i] = "." THEN ParsePathFrom(path, i + 1, flushed, <<>>)
       ELSE IF path[i] = "["
            THEN LET j == FindChar(path, "]", i + 1)
                     index == ParseInt(SubSeq(path, i + 1, j - 1))
                 IN IF j > Len(path) THEN Raise("ValueError", "Unmatched [")
                    ELSE IF ~index.ok THEN index
                    ELSE ParsePathFrom(path, j + 1, Append(flushed, SegIdx(index.v)), <<>>)
       ELSE ParsePathFrom(path, i + 1, segments, Append(current, path[i]))

_parse_path(path) == ParsePathFrom(path, 1, <<>>, <<>>)

\* _resolve_path: the navigation loop over the segments from value current
RECURSIVE Navigate(_, _)
Navigate(current, segments) ==
    IF segments = <<>> THEN Ok(current)
    ELSE LET segment == Head(segments)
         IN IF segment.int
            THEN IF ~IsList(current) \/ segment.n >= Len(current.l)
                 THEN Raise("KeyError", "Invalid array index")
                 ELSE IF segment.n < 0 - Len(current.l)
                 THEN Raise("IndexError", "list index out of range")
                 ELSE Navigate(current.l[IF segment.n >= 0 THEN segment.n + 1
                                         ELSE Len(current.l) + segment.n + 1],
                               Tail(segments))
            ELSE IF ~IsDict(current) \/ segment.s \notin DOMAIN current.d
                 THEN Raise("KeyError", "Key not found")
                 ELSE Navigate(current.d[segment.s], Tail(segments))

_resolve_path(context, path) ==
    LET segments == _parse_path(path)
    IN IF segments.ok THEN Navigate(context, segments.v) ELSE segments

\* the matches of the pattern \{([^}]*)\}, which takes "{}" for an expression
RECURSIVE FindMatchesEmpty(_, _)
FindMatchesEmpty(text, i) ==
    IF i > Len(text) THEN <<>>
    ELSE LET j == FindChar(text, "}", i + 1)
         IN IF text[i] = "{" /\ j <= Len(text)
            THEN <<(<<i, j>>)>> \o FindMatchesEmpty(text, j + 1)
            ELSE FindMatchesEmpty(text, i + 1)

\* INTERPOLATION_PATTERN.finditer: the matches of \{([^}]+)\} from position i,
\* each as <<first, last>> with text[first] = "{" and text[last] = "}"
RECURSIVE FindMatches(_, _)
FindMatches(text, i) ==
    IF i > Len(text) THEN <<>>
    ELSE LET j == FindChar(text, "}", i + 1)
         IN IF text[i] = "{" /\ j <= Len(text) /\ j > i + 1
            THEN <<(<<i, j>>)>> \o FindMatches(text, j + 1)
            ELSE FindMatches(text, i + 1)

\* the characters of a decimal number, as str(n) writes them
RECURSIVE NatChars(_)
NatChars(n) ==
    LET d == CHOOSE c \in Digit : DigitVal(c) = n % 10
    IN IF n < 10 THEN <<d>> ELSE Append(NatChars(n \div 10), d)
IntChars(n) == IF n < 0 THEN <<"-">> \o NatChars(0 - n) ELSE NatChars(n)

\* an enumeration of a finite set of keys (the order json.dumps writes them in
\* is the dict's insertion order, which a mapping does not record)
RECURSIVE KeySeq(_)
KeySeq(S) == IF S = {} THEN <<>> ELSE LET x == CHOOSE y \in S : TRUE IN <<x>> \o KeySeq(S \ {x})

\* json.dumps(value) and, for a value that is no dict or list, str(value)
RECURSIVE JsonDumps(_)
RECURSIVE JsonItems(_, _)
RECURSIVE JsonMembers(_, _)
JsonItems(l, i) ==
    IF i > Len(l) THEN <<>>
    ELSE (IF i > 1 THEN <<",", " ">> ELSE <<>>) \o JsonDumps(l[i]) \o JsonItems(l, i + 1)
JsonMembers(m, keys) ==
    IF keys = <<>> THEN <<>>
    ELSE <<"\"">> \o Head(keys) \o <<"\"", ":", " ">> \o JsonDumps(m[Head(keys)])
         \o (IF Len(keys) > 1 THEN <<",", " ">> ELSE <<>>) \o JsonMembers(m, Tail(keys))
JsonDumps(v) ==
    CASE v.k = "none" -> <<"null">>
      [] v.k = "str" -> <<"\"">> \o v.s \o <<"\"">>
      [] v.k = "int" -> IntChars(v.n)
      [] v.k = "bool" -> IF v.b THEN <<"true">> ELSE <<"false">>
      [] v.k = "dict" -> <<"{">> \o JsonMembers(v.d, KeySeq(DOMAIN v.d)) \o <<"}">>
      [] v.k = "list" -> <<"[">> \o JsonItems(v.l, 1) \o <<"]">>

PyStr(v) ==
    CASE v.k = "none" -> <<"None">>
      [] v.k = "str" -> v.s
      [] v.k = "int" -> IntChars(v.n)
      [] v.k = "bool" -> IF v.b THEN <<"True">> ELSE <<"False">>

\* a replace_match that drops an expression it cannot resolve
replace_match_drop(context, text, m) ==
    LET value == _resolve_path(context, SubSeq(text, m[1] + 1, m[2] - 1))
    IN IF ~value.ok THEN <<>>
       ELSE IF IsDict(value.v) \/ IsList(value.v) THEN JsonDumps(value.v)
       ELSE PyStr(value.v)

\* replace_match: the text a match is replaced by
replace_match(context, text, m) ==
    LET value == _resolve_path(context, SubSeq(text, m[1] + 1, m[2] - 1))
    IN IF ~value.ok THEN SubSeq(text, m[1], m[2])
       ELSE IF IsDict(value.v) \/ IsList(value.v) THEN JsonDumps(value.v)
       ELSE PyStr(value.v)

\* INTERPOLATION_PATTERN.sub(replace_match, text) from position i over the
\* remaining matches
RECURSIVE SubMatches(_, _, _, _)
SubMatches(context, text, matches, i) ==
    IF matches = <<>> THEN SubSeq(text, i, Len(text))
    ELSE LET m == Head(matches)
         IN SubSeq(text, i, m[1] - 1) \o replace_match(context, text, m)
            \o SubMatches(context, text, Tail(matches), m[2] + 1)

\* _interpolate_string without the special case of lines 62-68
_interpolate_string_text(context, text) == Str(SubMatches(context, text, FindMatches(text, 1), 1))

_interpolate_string(context, text) ==
    LET matches == FindMatches(text, 1)
    IN IF Len(matches) = 1 /\ matches[1] = <<1, Len(text)>>
       THEN LET value == _resolve_path(context, SubSeq(text, 2, Len(text) - 1))
            IN IF value.ok THEN value.v ELSE Str(text)
       ELSE Str(SubMatches(context, text, matches, 1))

RECURSIVE interpolate(_, _)
interpolate(context, value) ==
    CASE value.k = "str" -> _interpolate_string(context, value.s)
      [] value.k = "dict" -> Dict([key \in DOMAIN value.d |-> interpolate(context, value.d[key])])
      [] value.k = "list" -> List([i \in 1..Len(value.l) |-> interpolate(context, value.l[i])])
      [] OTHER -> value

\* str.split('.')
RECURSIVE Split(_)
Split(s) ==
    LET j == FindChar(s, ".", 1)
    IN IF j > Len(s) THEN <<s>> ELSE <<SubSeq(s, 1, j - 1)>> \o Split(SubSeq(s, j + 1, Len(s)))

\* add_result: the navigate/create loop over parts followed by the store; the
\* membership test and the item assignment raise TypeError on a value that is
\* no dict
RECURSIVE AddAt(_, _, _)
AddAt(current, parts, leaf) ==
    IF ~IsDict(current) THEN Raise("TypeError", "not a dict")
    ELSE IF Len(parts) = 1 THEN Ok(DictSet(current, parts[1], leaf))
    ELSE LET child == IF parts[1] \in DOMAIN current.d THEN current.d[parts[1]] ELSE EmptyDict
             sub == AddAt(child, Tail(parts), leaf)
         IN IF sub.ok THEN Ok(DictSet(current, parts[1], sub.v)) ELSE sub

add_result(context, event_name, result) ==
    AddAt(context, Split(event_name), Dict(<<"result">> :> result))

----------------------------------------------------------------------------
(* Names, schemas and inputs of the model *)

TOOLS_NOW == <<"tools", ".", "now">>
USER_CREATE == <<"user", ".", "create">>
NOTE_ADD == <<"note", ".", "add">>
AGENT_DECIDE == <<"agent", ".", "decide">>

K(word) == <<word>>

\* a Pydantic model: the kind each field accepts and the fields that are required
NowInput == [fields |-> EmptyMap, required |-> {}]
UserCreateInput == [fields |-> (K("name") :> "str" @@ K("from") :> "any"), required |-> {K("name")}]

\* the number of distinct values a handler may return
NumResults == 2
\* the cap of the bus history in the model (max_history_size)
MaxHistory == 2

HandlerValues == {Num(n) : n \in 1..NumResults}
\* what a handler invocation ends with: a returned value or an exception
Returned(v) == [raised |-> FALSE, v |-> v]
Raised(msg) == [raised |-> TRUE, msg |-> msg]
Pending == [raised |-> FALSE, v |-> [k |-> "pending"]]

\* replies of the decision handler
DecideReplies ==
    { Dict(K("action") :> Str(K("continue")) @@ K("params") :> Dict(K("name") :> Str(K("bob")))),
      Dict(K("action") :> Str(K("continue"))),
      Dict(K("action") :> Str(K("skip")) @@ K("reason") :> Str(K("why"))),
      None }

Outcomes(handler) ==
    IF handler = K("decide") THEN {Returned(v) : v \in DecideReplies} \cup {Raised(K("boom"))}
    ELSE {Returned(v) : v \in HandlerValues} \cup {Raised(K("boom"))}

\* chain elements as execute_chain receives them
Step(event, params, decide) == [has_event |-> TRUE, event |-> event, params |-> params, decide |-> decide]
NoEventStep == [has_event |-> FALSE, event |-> <<>>, params |-> EmptyDict, decide |-> None]
One(step) == [parallel |-> FALSE, steps |-> <<step>>]
Group(steps) == [parallel |-> TRUE, steps |-> steps]

NowRef == Str(<<"{", "tools", ".", "now", ".", "result", "}">>)
Named == Dict(K("name") :> Str(K("al")))
NamedFrom == Dict(K("name") :> Str(K("al")) @@ K("from") :> NowRef)

Now == Step(TOOLS_NOW, EmptyDict, None)
Create == Step(USER_CREATE, Named, None)
CreateFrom == Step(USER_CREATE, NamedFrom, None)
CreateBare == Step(USER_CREATE, EmptyDict, None)
CreateIf == Step(USER_CREATE, NamedFrom, Str(K("ok?")))
Note == Step(NOTE_ADD, Named, None)

Runs == {"A", "B"}

Chains(r) ==
    IF r = "A"
    THEN { <<One(Now), One(Create), One(CreateFrom)>>,
           <<One(CreateBare), One(Now)>>,
           <<Group(<<Now, CreateBare>>), One(CreateFrom)>>,
           <<One(Now), One(CreateIf), One(CreateFrom)>>,
           <<One(Note), One(NoEventStep)>>,
           <<One(Now), Group(<<Now, NoEventStep>>)>> }
    ELSE { <<One(Now)>> }

\* thread records as ThreadStorage keeps them on disk
ThreadEventData(event, result) ==
    Dict(K("event") :> Str(event) @@ K("result") :> result @@ K("timestamp") :> Str(K("ts"))
         @@ K("params") :> None @@ K("error") :> None)

ThreadData(id, events) ==
    Dict(K("thread_id") :> Str(K(id)) @@ K("summary") :> Str(K("sum")) @@ K("status") :> Str(K("active"))
         @@ K("created_at") :> Str(K("ts")) @@ K("updated_at") :> Str(K("ts"))
         @@ K("events") :> List(events) @@ K("metadata") :> EmptyDict)

InitialDisk ==
    "t1" :> ThreadData("t1", <<ThreadEventData(<<"thread", ".", "created">>, Dict(K("thread_id") :> Str(K("t1")))),
                               ThreadEventData(TOOLS_NOW, Num(9))>>)
    @@ "t2" :> DictSet(ThreadData("t2", <<>>), K("title"), Str(K("old")))

ThreadIds(r) == IF r = "A" THEN {"t1", "t2", "t3"} ELSE {"t1"}

----------------------------------------------------------------------------
(* Thread (modules/providers/thread_manager.py) *)

ThreadFields == {K("thread_id"), K("summary"), K("status"), K("created_at"), K("updated_at"),
                 K("events"), K("metadata")}
ThreadEventFields == {K("event"), K("result"), K("timestamp"), K("params"), K("error")}
\* the number of most recent events get_context folds into the context
ContextWindow == 10

MapWithout(m, key) == [x \in (DOMAIN m) \ {key} |-> m[x]]
OrDefault(m, key, default) == IF key \in DOMAIN m THEN m[key] ELSE default

\* ThreadEvent(**event_data)
ThreadEventOf(event_data) ==
    IF ~IsDict(event_data) THEN Raise("TypeError", "argument after ** must be a mapping")
    ELSE IF ~(DOMAIN event_data.d \subseteq ThreadEventFields)
    THEN Raise("TypeError", "unexpected keyword argument")
    ELSE IF ~({K("event"), K("result"), K("timestamp")} \subseteq DOMAIN event_data.d)
    THEN Raise("TypeError", "missing required argument")
    ELSE Ok(Dict(K("event") :> event_data.d[K("event")] @@ K("result") :> event_data.d[K("result")]
                 @@ K("timestamp") :> event_data.d[K("timestamp")]
                 @@ K("params") :> OrDefault(event_data.d, K("params"), None)
                 @@ K("error") :> OrDefault(event_data.d, K("error"), None)))

\* Thread.from_dict(data) on data with the 'events' entry already popped into
\* events_data
from_dict(data, events_data) ==
    IF ~(DOMAIN data \subseteq ThreadFields)
    THEN Raise("TypeError", "unexpected keyword argument")
    ELSE IF ~({K("thread_id"), K("summary")} \subseteq DOMAIN data)
    THEN Raise("TypeError", "missing required argument")
    ELSE IF ~IsList(events_data) THEN Raise("TypeError", "not iterable")
    ELSE LET events == [i \in 1..Len(events_data.l) |-> ThreadEventOf(events_data.l[i])]
         IN IF \E i \in 1..Len(events) : ~events[i].ok
            THEN events[CHOOSE i \in 1..Len(events) : ~events[i].ok /\ \A j \in 1..(i - 1) : events[j].ok]
            ELSE Ok([thread_id |-> data[K("thread_id")],
                     summary |-> data[K("summary")],
                     status |-> OrDefault(data, K("status"), Str(K("active"))),
                     created_at |-> OrDefault(data, K("created_at"), Str(K("ts"))),
                     updated_at |-> OrDefault(data, K("updated_at"), Str(K("ts"))),
                     events |-> [i \in 1..Len(events) |-> events[i].v],
                     metadata |-> OrDefault(data, K("metadata"), EmptyDict)])

\* get_context: the loop over the recent events from event i on
RECURSIVE FoldEvents(_, _, _)
FoldEvents(context, events, i) ==
    IF i > Len(events) THEN Ok(context)
    ELSE LET event == events[i].d[K("event")]
             result == events[i].d[K("result")]
         IN IF ~IsStr(event) THEN Raise("TypeError", "argument is not iterable")
            ELSE IF FindChar(event.s, ".", 1) <= Len(event.s) /\ Truthy(result)
            THEN LET added == AddAt(context, Split(event.s), Dict(K("result") :> result))
                 IN IF added.ok THEN FoldEvents(added.v, events, i + 1) ELSE added
            ELSE FoldEvents(context, events, i + 1)

get_context(thread) ==
    LET context ==
            Dict(K("thread_id") :> thread.thread_id @@ K("summary") :> thread.summary
                 @@ K("metadata") :> thread.metadata
                 @@ K("thread") :> Dict(thread.thread_id.s :>
                        Dict(K("events") :> List(thread.events) @@ K("summary") :> thread.summary
                             @@ K("metadata") :> thread.metadata)))
        first == IF Len(thread.events) > ContextWindow THEN Len(thread.events) - ContextWindow + 1 ELSE 1
    IN FoldEvents(context, thread.events, first)

----------------------------------------------------------------------------
(* ConcurrentEventBus (modules/eventbus/event_bus.py) *)

KindOk(kind, v) == kind = "any" \/ v.k = kind

\* schema(**data) followed by model_dump(): the declared fields of data, the
\* missing optional ones as None
Validate(schema, data) ==
    IF ~IsDict(data) THEN Raise("TypeError", "argument after ** must be a mapping")
    ELSE IF ~(schema.required \subseteq DOMAIN data.d)
    THEN Raise("ValidationError", "field required")
    ELSE IF \E f \in (DOMAIN schema.fields) \cap (DOMAIN data.d) : ~KindOk(schema.fields[f], data.d[f])
    THEN Raise("ValidationError", "wrong type")
    ELSE Ok(Dict([f \in DOMAIN schema.fields |-> IF f \in DOMAIN data.d THEN data.d[f] ELSE None]))

BusEvent(type, data, source) == [type |-> type, data |-> data, source |-> source]

\* a history that keeps its oldest entries and drops the new event past the cap
RememberOldest(history, event) ==
    IF Len(history) >= MaxHistory THEN history ELSE Append(history, event)

\* the history after one more event, the oldest dropped past the cap
Remember(history, event) ==
    LET appended == Append(history, event)
    IN IF Len(appended) > MaxHistory THEN Tail(appended) ELSE appended

\* a publish that does not validate the data
PublishStartUnchecked(schemas, handlers, history, event_type, data) ==
    Ok([history |-> Remember(history, BusEvent(event_type, data, "system")),
        handlers |-> OrDefault(handlers, event_type, <<>>),
        data |-> data])

\* publish up to the point where the handlers are started: the validated
\* data, the history and the handlers to run, or the ValidationError raised
PublishStart(schemas, handlers, history, event_type, data) ==
    LET validated == IF event_type \in DOMAIN schemas THEN Validate(schemas[event_type], data) ELSE Ok(data)
    IN IF ~validated.ok THEN validated
       ELSE Ok([history |-> Remember(history, BusEvent(event_type, validated.v, "system")),
                handlers |-> OrDefault(handlers, event_type, <<>>),
                data |-> validated.v])

\* publish from the gathered outcomes on: handler_results and what is returned
HandlerResult(outcome) == IF outcome.raised THEN Dict(K("error") :> Str(outcome.msg)) ELSE outcome.v

PublishReturn(handlers, outcomes) ==
    LET names == {handlers[i] : i \in 1..Len(handlers)}
        last(name) == CHOOSE i \in 1..Len(handlers) : handlers[i] = name /\ \A j \in (i + 1)..Len(handlers) : handlers[j] # name
        handler_results == [name \in names |-> HandlerResult(outcomes[last(name)])]
    IN IF Cardinality(names) = 0 THEN EmptyDict
       ELSE IF Cardinality(names) = 1 THEN handler_results[CHOOSE name \in names : TRUE]
       ELSE Dict(handler_results)

----------------------------------------------------------------------------
(* State *)

VARIABLES
    _handlers,        \* ConcurrentEventBus._handlers: event type -> list of handler names
    _schemas,         \* ConcurrentEventBus._schemas: event type -> schema
    _event_history,   \* ConcurrentEventBus._event_history
    disk,             \* ThreadStorage: the thread files, thread id -> thread data
    _cache,           \* ThreadStorage._cache: thread id -> thread data
    lock,             \* ThreadStorage._lock: the run holding it, "" when free
    _interpolator,    \* EventChainExecutor._interpolator: the run that created the
                      \* interpolator the executor refers to, "" for None
    contexts,         \* ParameterInterpolator.context of the interpolator each run created
    cur,              \* the task the event loop is running, <<>> between tasks
    run,              \* the execute_chain calls: chain, position, steps, result
    calls,            \* the publish calls made on the bus directly: position, handlers, result
    log,              \* the events that have passed the validation of publish, in publish order
    clock,            \* the time datetime.now() returns
    last,             \* the last call made on the thread manager, or the last read of the
                      \* persistence file, and what it returned
    written,          \* thread id -> the event list of the last write reported as done
    _lock,            \* ThreadManager._lock: the worker holding it, "" when free
    waiters,          \* the workers waiting for each of the two locks, first come first
    work,             \* the concurrent calls on the thread manager: position and locals
    done,             \* the concurrent calls that have returned, in the order they returned
    interp,           \* the call made on a ParameterInterpolator and what came of it
    _persistence_file, \* ConcurrentEventBus._persistence_file: its lines, None when not set
    registered        \* event type -> for each handler of its list, whether register put it there

vars == <<_handlers, _schemas, _event_history, disk, _cache, lock, _interpolator, contexts, cur, run,
          calls, log, clock, last, written, _lock, waiters, work, done, interp, _persistence_file, registered>>

\* the state of the callers of the bus and of the thread manager
callvars == <<calls, log, clock, last, written>>
\* the state of the chain executor
chainvars == <<lock, _interpolator, contexts, cur, run>>
\* the state of the concurrent callers of the thread manager
workvars == <<_lock, waiters, work, done>>
\* the state the executor, the bus without a file and the thread manager called
\* in turn never touch
sidevars == <<workvars, interp, _persistence_file>>

NoTask == <<>>
Main(r) == <<r, 0>>
TaskOf(r, i, j) == IF run[r].chain[i].parallel THEN <<r, j>> ELSE Main(r)

Err(type, message) == [k |-> "err", type |-> type, message |-> message]

\* ChainEventSpec(event=..., params=..., decide=...)
ChainEventSpec(event, params, decide) ==
    [event |-> event, params |-> params, decide |-> decide, result |-> None, error |-> None]

NoWait == [handlers |-> <<>>, outcomes |-> <<>>]

\* one call of _execute_single: where it is (at), its locals (ce is chain_event,
\* ip is interpolated_params, schema is event_schema, val is the value the last
\* publish returned, wait is the publish it awaits) and a record of what it did:
\* ip0 the params as interpolated, own0 the params as this run's own results
\* interpolate them, reads / folds the interpolator read and written,
\* decides / repairs / publishes the calls made, decided and completed the
\* replies to the decide prompt and to the repair call, checked the params
\* line 141 validated, published the data of the target publish, outcomes what
\* the handlers of the target event ended with
NewStep(spec) ==
    [at |-> "new", spec |-> spec, ce |-> ChainEventSpec(<<>>, EmptyDict, None),
     ip |-> EmptyDict, schema |-> [has |-> FALSE, s |-> NowInput], val |-> None, wait |-> NoWait,
     exc |-> None, ip0 |-> None, own0 |-> None, reads |-> "", folds |-> "",
     invalid |-> FALSE, decides |-> 0, repairs |-> 0, publishes |-> 0,
     decided |-> None, checked |-> None, published |-> None, completed |-> None,
     outcomes |-> <<>>]

IdleRun ==
    [chain |-> <<>>, thread_id |-> "", pc |-> "idle", idx |-> 0, executed_events |-> <<>>,
     steps |-> <<>>, own |-> EmptyDict, ret |-> None]

\* EventChainResult(thread_id=..., events=..., success=..., error=...)
EventChainResult(thread_id, events, success, error) ==
    [k |-> "result", thread_id |-> thread_id, events |-> events, success |-> success, error |-> error]

\* the direct callers of publish, and a caller between two calls
Callers == {"p", "q"}
IdleCall == [at |-> "idle"]
\* no call made on the thread manager yet
NoCall == [op |-> "none"]

\* the workers that call the thread manager concurrently
Workers == {"a", "b"}
IdleWork == [at |-> "idle"]
\* no concurrent call on the thread manager, both locks free
WorkIdle ==
    /\ _lock = ""
    /\ waiters = [storage |-> <<>>, manager |-> <<>>]
    /\ work = [w \in Workers |-> IdleWork]
    /\ done = <<>>
\* no call on a stand-alone interpolator, no persistence file
SideIdle ==
    /\ WorkIdle
    /\ interp = NoCall
    /\ _persistence_file = None
    /\ registered = [event_type \in DOMAIN _handlers |-> [h \in 1..Len(_handlers[event_type]) |-> TRUE]]

Init ==
    /\ _handlers = (TOOLS_NOW :> <<K("now")>> @@ USER_CREATE :> <<K("create")>>
                    @@ NOTE_ADD :> <<K("note")>> @@ AGENT_DECIDE :> <<K("decide")>>)
    /\ _schemas = (TOOLS_NOW :> NowInput @@ USER_CREATE :> UserCreateInput)
    /\ _event_history = <<>>
    /\ disk = InitialDisk
    /\ _cache = [x \in {} |-> None]
    /\ lock = ""
    /\ _interpolator = ""
    /\ contexts = [r \in Runs |-> EmptyDict]
    /\ cur = NoTask
    /\ run = [r \in Runs |-> IdleRun]
    /\ calls = [c \in Callers |-> IdleCall]
    /\ log = <<>>
    /\ clock = 0
    /\ last = NoCall
    /\ written = EmptyMap
    /\ SideIdle

----------------------------------------------------------------------------
(* execute_chain: loading the thread (event_chain.py 57-68) *)

\* get_thread from the loaded thread_data on, then lines 61-68: the context of
\* the thread becomes the context of a new interpolator.  from_dict pops
\* 'events' out of thread_data, which is the dict the cache holds.
AfterLoad(r, rr, cache, thread_data) ==
    LET tid == rr.thread_id
        found == Truthy(thread_data)
        thread == IF found
                  THEN from_dict(MapWithout(thread_data.d, K("events")),
                                 OrDefault(thread_data.d, K("events"), List(<<>>)))
                  ELSE Ok(None)
        context == IF ~found THEN Ok(EmptyDict)
                   ELSE IF thread.ok THEN get_context(thread.v) ELSE thread
    IN /\ _cache' = IF found /\ tid \in DOMAIN cache
                    THEN [cache EXCEPT ![tid] = Dict(MapWithout(thread_data.d, K("events")))]
                    ELSE cache
       /\ IF context.ok
          THEN /\ contexts' = [contexts EXCEPT ![r] = context.v]
               /\ _interpolator' = r
               /\ run' = [run EXCEPT ![r] = [rr EXCEPT !.pc = "loop", !.idx = 1, !.own = context.v]]
               /\ cur' = Main(r)
          ELSE /\ run' = [run EXCEPT ![r] = [rr EXCEPT !.pc = "raised", !.ret = Err(context.type, context.msg)]]
               /\ cur' = NoTask
               /\ UNCHANGED <<contexts, _interpolator>>

\* ThreadStorage.load once the lock is held: a fresh cache entry is returned,
\* an expired one is dropped and the file is read
LoadLocked(r, rr, expired) ==
    LET tid == rr.thread_id
        hit == tid \in DOMAIN _cache /\ ~expired
        cache == IF tid \in DOMAIN _cache /\ expired THEN MapWithout(_cache, tid) ELSE _cache
    IN IF hit THEN AfterLoad(r, rr, _cache, _cache[tid]) /\ UNCHANGED lock
       ELSE IF tid \notin DOMAIN disk THEN AfterLoad(r, rr, cache, None) /\ UNCHANGED lock
       ELSE /\ run' = [run EXCEPT ![r] = [rr EXCEPT !.pc = "reading"]]
            /\ _cache' = cache
            /\ lock' = r
            /\ cur' = NoTask
            /\ UNCHANGED <<contexts, _interpolator>>

\* execute_chain(chain, thread_id) is called
StartRun(r) ==
    /\ cur = NoTask
    /\ run[r].pc = "idle"
    /\ \E chain \in Chains(r), tid \in ThreadIds(r), expired \in BOOLEAN :
         LET rr == [IdleRun EXCEPT !.chain = chain, !.thread_id = tid,
                        !.steps = [i \in 1..Len(chain) |->
                                      [j \in 1..Len(chain[i].steps) |-> NewStep(chain[i].steps[j])]]]
         IN IF lock # ""
            THEN /\ ~expired
                 /\ run' = [run EXCEPT ![r] = [rr EXCEPT !.pc = "lockwait"]]
                 /\ UNCHANGED <<_cache, lock, contexts, _interpolator, cur>>
            ELSE /\ (expired => tid \in DOMAIN _cache)
                 /\ LoadLocked(r, rr, expired)
    /\ UNCHANGED <<_handlers, _schemas, _event_history, disk>>
    /\ UNCHANGED <<callvars, sidevars, registered>>

\* the storage lock is released to a waiting load
LockAcquired(r) ==
    /\ cur = NoTask
    /\ run[r].pc = "lockwait"
    /\ lock = ""
    /\ \E expired \in BOOLEAN :
         /\ (expired => run[r].thread_id \in DOMAIN _cache)
         /\ LoadLocked(r, run[r], expired)
    /\ UNCHANGED <<_handlers, _schemas, _event_history, disk>>
    /\ UNCHANGED <<callvars, sidevars, registered>>

\* _read_file returns: the data is cached, the lock released
ReadDone(r) ==
    /\ cur = NoTask
    /\ run[r].pc = "reading"
    /\ lock' = ""
    /\ LET tid == run[r].thread_id
           thread_data == disk[tid]
       IN AfterLoad(r, run[r], IF Truthy(thread_data) THEN MapSet(_cache, tid, thread_data) ELSE _cache,
                    thread_data)
    /\ UNCHANGED <<_handlers, _schemas, _event_history, disk>>
    /\ UNCHANGED <<callvars, sidevars, registered>>

----------------------------------------------------------------------------
(* execute_chain: the loop over the chain (event_chain.py 70-106) *)

Finished(r, events, success, error) ==
    [run[r] EXCEPT !.pc = "done", !.executed_events = events,
                   !.ret = EventChainResult(run[r].thread_id, events, success, error)]

\* the next chain element is taken up, or the chain is exhausted (71-79, 91-96)
Loop(r) ==
    /\ cur = Main(r)
    /\ run[r].pc = "loop"
    /\ IF run[r].idx > Len(run[r].chain)
       THEN /\ run' = [run EXCEPT ![r] = Finished(r, run[r].executed_events, TRUE, None)]
            /\ cur' = NoTask
       ELSE IF run[r].chain[run[r].idx].parallel
       THEN IF run[r].chain[run[r].idx].steps = <<>>
            THEN /\ run' = [run EXCEPT ![r].idx = @ + 1]
                 /\ cur' = cur
            ELSE /\ run' = [run EXCEPT ![r].pc = "gather"]
                 /\ cur' = NoTask
       ELSE /\ run' = [run EXCEPT ![r].pc = "step"]
            /\ cur' = cur
    /\ UNCHANGED <<_handlers, _schemas, _event_history, disk, _cache, lock, _interpolator, contexts>>
    /\ UNCHANGED <<callvars, sidevars, registered>>

\* the check of line 82 left out
StepFailedNever(chain_event) == FALSE

\* line 82: if event_result.error
StepFailed(chain_event) == chain_event.error # None

\* a sequential step has returned or raised (79-89, 98-106)
AfterStep(r) ==
    /\ cur = Main(r)
    /\ run[r].pc = "after_step"
    /\ LET step == run[r].steps[run[r].idx][1]
           events == Append(run[r].executed_events, step.ce)
       IN IF step.at = "raised"
          THEN /\ run' = [run EXCEPT ![r] = Finished(r, run[r].executed_events, FALSE,
                                                      [event |-> <<>>, message |-> step.exc.message])]
               /\ cur' = NoTask
          ELSE IF StepFailed(step.ce)
          THEN /\ run' = [run EXCEPT ![r] = Finished(r, events, FALSE,
                                                      [event |-> step.ce.event, message |-> step.ce.error.message])]
               /\ cur' = NoTask
          ELSE /\ run' = [run EXCEPT ![r].executed_events = events, ![r].idx = @ + 1, ![r].pc = "loop"]
               /\ cur' = cur
    /\ UNCHANGED <<_handlers, _schemas, _event_history, disk, _cache, lock, _interpolator, contexts>>
    /\ UNCHANGED <<callvars, sidevars, registered>>

\* gather without return_exceptions: the first member that raises ends the wait
GatherFailFast(members) ==
    \/ \E j \in 1..Len(members) : members[j].at = "raised"
    \/ \A j \in 1..Len(members) : members[j].at \in {"done", "raised"}

\* a wait that ends with the first member that has ended
GatherAny(members) == \E j \in 1..Len(members) : members[j].at \in {"done", "raised"}

\* line 182: gather returns once every member has returned or raised
GatherDone(members) == \A j \in 1..Len(members) : members[j].at \in {"done", "raised"}

\* _execute_parallel from the return of gather on (184-198): a member that
\* raised becomes an error event built from its spec; line 75 extends the
\* executed events
Gathered(r) ==
    /\ cur = NoTask
    /\ run[r].pc = "gather"
    /\ LET i == run[r].idx
           members == run[r].steps[i]
           results == [j \in 1..Len(members) |->
                          IF members[j].at = "raised"
                          THEN IF members[j].spec.has_event
                               THEN Ok([ChainEventSpec(members[j].spec.event, members[j].spec.params, None)
                                           EXCEPT !.error = members[j].exc])
                               ELSE Raise("KeyError", "event")
                          ELSE Ok(members[j].ce)]
       IN /\ GatherDone(members)
          /\ IF \E j \in 1..Len(results) : ~results[j].ok
             THEN /\ run' = [run EXCEPT ![r] = Finished(r, run[r].executed_events, FALSE,
                                                         [event |-> <<>>, message |-> "event"])]
                  /\ cur' = NoTask
             ELSE /\ run' = [run EXCEPT ![r].executed_events = @ \o [j \in 1..Len(results) |-> results[j].v],
                                        ![r].idx = @ + 1, ![r].pc = "loop"]
                  /\ cur' = Main(r)
    /\ UNCHANGED <<_handlers, _schemas, _event_history, disk, _cache, lock, _interpolator, contexts>>
    /\ UNCHANGED <<callvars, sidevars, registered>>

----------------------------------------------------------------------------
(* _execute_single (event_chain.py 108-177) *)

\* the step of run r at chain element i, member j, is at label at and its task
\* holds the event loop
Running(r, i, j, at) ==
    /\ run[r].pc \in {"step", "gather"}
    /\ run[r].idx = i
    /\ j \in 1..Len(run[r].steps[i])
    /\ run[r].steps[i][j].at = at
    /\ cur = TaskOf(r, i, j)

\* the step goes on in the same task, yields to the event loop, or ends
Move(r, i, j, step, mode) ==
    /\ run' = [run EXCEPT ![r].steps[i][j] = step,
                          ![r].pc = IF mode = "end" /\ ~run[r].chain[i].parallel THEN "after_step" ELSE @]
    /\ cur' = IF mode = "go" \/ (mode = "end" /\ ~run[r].chain[i].parallel) THEN TaskOf(r, i, j) ELSE NoTask

\* the except clause of lines 169-174
Failed(step, type, message) == [step EXCEPT !.at = "done", !.ce.error = Err(type, message)]

\* event_bus.publish called from a step: on a ValidationError the step fails,
\* without handlers the call returns at once, else the step waits for them
CallPublish(r, i, j, step, event_type, data, waiting, ready) ==
    LET started == PublishStart(_schemas, _handlers, _event_history, event_type, data)
    IN IF ~started.ok
       THEN /\ Move(r, i, j, Failed(step, started.type, started.msg), "end")
            /\ UNCHANGED _event_history
       ELSE /\ _event_history' = started.v.history
            /\ IF started.v.handlers = <<>>
               THEN Move(r, i, j, [step EXCEPT !.at = ready, !.val = PublishReturn(<<>>, <<>>)], "go")
               ELSE Move(r, i, j, [step EXCEPT !.at = waiting,
                                       !.wait = [handlers |-> started.v.handlers,
                                                 outcomes |-> [h \in 1..Len(started.v.handlers) |-> Pending]]],
                         "yield")

DecideData(thread_id, prompt, params, schema) ==
    Dict(K("thread_id") :> Str(K(thread_id)) @@ K("prompt") :> prompt @@ K("params") :> params
         @@ K("schema") :> (IF schema.has THEN Str(K("<schema>")) ELSE None))

RepairPrompt == Str(K("Correct the following parameters"))

\* lines 110-132: the chain event is created, its params are interpolated and,
\* for a step with a decide prompt, agent.decide is published.  A member of a
\* parallel group starts as a task of its own, in the order of the group.
SegBegin(r, i, j) ==
    /\ run[r].pc \in {"step", "gather"}
    /\ run[r].idx = i
    /\ j \in 1..Len(run[r].steps[i])
    /\ run[r].steps[i][j].at = "new"
    /\ IF run[r].chain[i].parallel
       THEN cur = NoTask /\ \A h \in 1..(j - 1) : run[r].steps[i][h].at # "new"
       ELSE cur = Main(r)
    /\ LET step == run[r].steps[i][j]
           spec == step.spec
           interpolated == interpolate(contexts[_interpolator], spec.params)
           begun == [step EXCEPT !.ce = ChainEventSpec(spec.event, spec.params, spec.decide),
                                 !.ip = interpolated, !.ip0 = interpolated,
                                 !.own0 = interpolate(run[r].own, spec.params),
                                 !.reads = _interpolator,
                                 !.schema = IF spec.event \in DOMAIN _schemas
                                            THEN [has |-> TRUE, s |-> _schemas[spec.event]]
                                            ELSE [has |-> FALSE, s |-> NowInput]]
       IN IF ~spec.has_event
          THEN /\ run' = [run EXCEPT ![r].steps[i][j] = [step EXCEPT !.at = "raised", !.exc = Err("KeyError", "event")],
                                     ![r].pc = IF run[r].chain[i].parallel THEN @ ELSE "after_step"]
               /\ cur' = IF run[r].chain[i].parallel THEN NoTask ELSE cur
               /\ UNCHANGED _event_history
          ELSE IF Truthy(spec.decide)
          THEN CallPublish(r, i, j, [begun EXCEPT !.decides = @ + 1], AGENT_DECIDE,
                              DecideData(run[r].thread_id, spec.decide, interpolated, begun.schema),
                            "w_decide", "decided")
          ELSE /\ Move(r, i, j, [begun EXCEPT !.at = "validate"], "go")
               /\ UNCHANGED _event_history
    /\ UNCHANGED <<_handlers, _schemas, disk, _cache, lock, _interpolator, contexts>>
    /\ UNCHANGED <<callvars, sidevars, registered>>

\* a reply is never taken for a skip
IsSkipNever(decision) == FALSE

\* line 133: decision['action'] == 'skip'
IsSkip(decision) == Get(decision, K("action")) = Str(K("skip"))

\* lines 133-137: the reply of the decision handler to the decide prompt
SegDecided(r, i, j) ==
    /\ Running(r, i, j, "decided")
    /\ LET step == [run[r].steps[i][j] EXCEPT !.decided = run[r].steps[i][j].val]
           decision == step.val
       IN IF ~IsDict(decision) THEN Move(r, i, j, Failed(step, "TypeError", "not subscriptable"), "end")
          ELSE IF ~HasKey(decision, K("action")) THEN Move(r, i, j, Failed(step, "KeyError", "action"), "end")
          ELSE IF IsSkip(decision)
          THEN Move(r, i, j,
                    [step EXCEPT !.at = "done",
                                 !.ce.result = Dict(K("skipped") :> Bool(TRUE)
                                                    @@ K("reason") :> OrDefault(decision.d, K("reason"), None))],
                    "end")
          ELSE IF Get(decision, K("action")) = Str(K("continue")) /\ HasKey(decision, K("params"))
          THEN IF ~IsDict(Get(decision, K("params")))
               THEN Move(r, i, j, Failed(step, "TypeError", "not iterable"), "end")
               ELSE Move(r, i, j, [step EXCEPT !.at = "validate",
                                       !.ip = Dict(MapUpdate(step.ip.d, Get(decision, K("params")).d))], "go")
          ELSE Move(r, i, j, [step EXCEPT !.at = "validate"], "go")
    /\ UNCHANGED <<_handlers, _schemas, _event_history, disk, _cache, lock, _interpolator, contexts>>
    /\ UNCHANGED <<callvars, sidevars, registered>>

\* event_schema(**interpolated_params) of line 141, which raises as well when
\* no schema is registered and event_schema is None
SchemaCheck(schema, params) ==
    IF schema.has THEN Validate(schema.s, params) ELSE Raise("TypeError", "NoneType object is not callable")

\* lines 139-149: the params are validated; when that raises, agent.decide is
\* published once more with the error in its prompt (_complete_params 257-265)
SegValidate(r, i, j) ==
    /\ Running(r, i, j, "validate")
    /\ LET step == [run[r].steps[i][j] EXCEPT !.checked = run[r].steps[i][j].ip]
       IN IF SchemaCheck(step.schema, step.ip).ok
          THEN /\ Move(r, i, j, [step EXCEPT !.at = "publish"], "go")
               /\ UNCHANGED _event_history
          ELSE CallPublish(r, i, j, [step EXCEPT !.invalid = TRUE, !.repairs = @ + 1], AGENT_DECIDE,
                           DecideData(run[r].thread_id, RepairPrompt, step.ip, step.schema),
                           "w_repair", "repaired")
    /\ UNCHANGED <<_handlers, _schemas, disk, _cache, lock, _interpolator, contexts>>
    /\ UNCHANGED <<callvars, sidevars, registered>>

\* the reply of the repair call ignored
CompletedParamsIgnored(decision, params) == params

\* _complete_params 267: decision.get('params', params)
CompletedParams(decision, params) == OrDefault(decision.d, K("params"), params)

\* _complete_params 267-268 and line 150: the params of the reply, the
\* original ones when it has none
SegRepaired(r, i, j) ==
    /\ Running(r, i, j, "repaired")
    /\ LET step == run[r].steps[i][j]
           decision == step.val
       IN IF ~IsDict(decision) THEN Move(r, i, j, Failed(step, "AttributeError", "get"), "end")
          ELSE Move(r, i, j, [step EXCEPT !.at = "publish", !.completed = decision,
                                  !.ip = CompletedParams(decision, step.ip)], "go")
    /\ UNCHANGED <<_handlers, _schemas, _event_history, disk, _cache, lock, _interpolator, contexts>>
    /\ UNCHANGED <<callvars, sidevars, registered>>

\* lines 152-163: the target event is published with the params and the two
\* chain fields
SegPublish(r, i, j) ==
    /\ Running(r, i, j, "publish")
    /\ LET step == run[r].steps[i][j]
           data == Dict(MapUpdate(step.ip.d, K("_thread_id") :> Str(K(run[r].thread_id))
                                             @@ K("_chain_execution") :> Bool(TRUE)))
       IN IF ~IsDict(step.ip)
          THEN /\ Move(r, i, j, Failed(step, "TypeError", "not a mapping"), "end")
               /\ UNCHANGED _event_history
          ELSE CallPublish(r, i, j, [step EXCEPT !.publishes = @ + 1, !.published = data],
                           step.ce.event, data, "w_publish", "published")
    /\ UNCHANGED <<_handlers, _schemas, disk, _cache, lock, _interpolator, contexts>>
    /\ UNCHANGED <<callvars, sidevars, registered>>

\* lines 163-177: the result is recorded on the chain event and stored in the
\* context of the interpolator the executor refers to
SegPublished(r, i, j) ==
    /\ Running(r, i, j, "published")
    /\ LET step == run[r].steps[i][j]
           result == step.val
           recorded == [step EXCEPT !.at = "done", !.ce.result = result, !.folds = _interpolator]
           stored == add_result(contexts[_interpolator], step.ce.event, result)
           own == add_result(run[r].own, step.ce.event, result)
       IN IF stored.ok
          THEN /\ contexts' = [contexts EXCEPT ![_interpolator] = stored.v]
               /\ run' = [run EXCEPT ![r].steps[i][j] = recorded,
                                     ![r].own = IF own.ok THEN own.v ELSE @,
                                     ![r].pc = IF run[r].chain[i].parallel THEN @ ELSE "after_step"]
               /\ cur' = IF run[r].chain[i].parallel THEN NoTask ELSE cur
          ELSE /\ Move(r, i, j, Failed(recorded, stored.type, stored.msg), "end")
               /\ UNCHANGED contexts
    /\ UNCHANGED <<_handlers, _schemas, _event_history, disk, _cache, lock, _interpolator>>
    /\ UNCHANGED <<callvars, sidevars, registered>>

Waiting == {"w_decide", "w_repair", "w_publish"}
Ready(at) == CASE at = "w_decide" -> "decided" [] at = "w_repair" -> "repaired" [] at = "w_publish" -> "published"

\* a handler that publish started returns or raises (event_bus.py 193-199)
HandlerReturn(r, i, j, h) ==
    /\ cur = NoTask
    /\ run[r].pc \in {"step", "gather"}
    /\ run[r].idx = i
    /\ j \in 1..Len(run[r].steps[i])
    /\ run[r].steps[i][j].at \in Waiting
    /\ h \in 1..Len(run[r].steps[i][j].wait.handlers)
    /\ run[r].steps[i][j].wait.outcomes[h] = Pending
    /\ \E outcome \in Outcomes(run[r].steps[i][j].wait.handlers[h]) :
         run' = [run EXCEPT ![r].steps[i][j].wait.outcomes[h] = outcome]
    /\ UNCHANGED <<_handlers, _schemas, _event_history, disk, _cache, lock, _interpolator, contexts, cur>>
    /\ UNCHANGED <<callvars, sidevars, registered>>

\* gather has all the outcomes: publish returns to the step (event_bus.py 149-170)
Wake(r, i, j) ==
    /\ cur = NoTask
    /\ run[r].pc \in {"step", "gather"}
    /\ run[r].idx = i
    /\ j \in 1..Len(run[r].steps[i])
    /\ run[r].steps[i][j].at \in Waiting
    /\ \A h \in 1..Len(run[r].steps[i][j].wait.outcomes) : run[r].steps[i][j].wait.outcomes[h] # Pending
    /\ LET step == run[r].steps[i][j]
       IN run' = [run EXCEPT ![r].steps[i][j] =
                     [step EXCEPT !.at = Ready(step.at), !.wait = NoWait,
                                  !.outcomes = IF step.at = "w_publish" THEN step.wait.outcomes ELSE @,
                                  !.val = PublishReturn(step.wait.handlers, step.wait.outcomes)]]
    /\ cur' = TaskOf(r, i, j)
    /\ UNCHANGED <<_handlers, _schemas, _event_history, disk, _cache, lock, _interpolator, contexts>>
    /\ UNCHANGED <<callvars, sidevars, registered>>

----------------------------------------------------------------------------
(* Specification *)

\* the positions of the steps of a chain and of the handlers of a publish
MaxItems == 3
MaxMembers == 2
MaxHandlers == 2

Next ==
    \/ \E r \in Runs : StartRun(r)
    \/ \E r \in Runs : LockAcquired(r)
    \/ \E r \in Runs : ReadDone(r)
    \/ \E r \in Runs : Loop(r)
    \/ \E r \in Runs : AfterStep(r)
    \/ \E r \in Runs : Gathered(r)
    \/ \E r \in Runs, i \in 1..MaxItems, j \in 1..MaxMembers : SegBegin(r, i, j)
    \/ \E r \in Runs, i \in 1..MaxItems, j \in 1..MaxMembers : SegDecided(r, i, j)
    \/ \E r \in Runs, i \in 1..MaxItems, j \in 1..MaxMembers : SegValidate(r, i, j)
    \/ \E r \in Runs, i \in 1..MaxItems, j \in 1..MaxMembers : SegRepaired(r, i, j)
    \/ \E r \in Runs, i \in 1..MaxItems, j \in 1..MaxMembers : SegPublish(r, i, j)
    \/ \E r \in Runs, i \in 1..MaxItems, j \in 1..MaxMembers : SegPublished(r, i, j)
    \/ \E r \in Runs, i \in 1..MaxItems, j \in 1..MaxMembers, h \in 1..MaxHandlers : HandlerReturn(r, i, j, h)
    \/ \E r \in Runs, i \in 1..MaxItems, j \in 1..MaxMembers : Wake(r, i, j)

Spec == Init /\ [][Next]_vars

----------------------------------------------------------------------------
(* ConcurrentEventBus called directly (event_bus.py 69-191) *)

\* the payloads and handlers of the direct callers: caller p publishes
\* user.create, which has the handlers, caller q publishes note.add, which has
\* none
Payloads == {Named, EmptyDict}
Subscribers == {K("create"), K("audit")}
\* the longest handler list of an event type: a handler may be subscribed
\* more than once
MaxSubscribed == Cardinality(Subscribers)
\* the number of events published past validation
MaxPublishes == MaxHistory + 1

\* the handlers of an event type (self._handlers is a defaultdict(list))
HandlersOf(event_type) == OrDefault(_handlers, event_type, <<>>)

\* list.remove(handler): the list without the first occurrence of handler
RECURSIVE Remove(_, _)
Remove(handlers, handler) ==
    IF handlers = <<>> THEN <<>>
    ELSE IF Head(handlers) = handler THEN Tail(handlers)
    ELSE <<Head(handlers)>> \o Remove(Tail(handlers), handler)

\* a list without its element i
RemoveAt(l, i) == SubSeq(l, 1, i - 1) \o SubSeq(l, i + 1, Len(l))

\* the decorator of register (79-84): the handler is appended and a schema
\* that is given replaces the one of the event type
BusRegister(event_type, schema, handler) ==
    /\ Len(HandlersOf(event_type)) < MaxSubscribed
    /\ _handlers' = MapSet(_handlers, event_type, Append(HandlersOf(event_type), handler))
    /\ _schemas' = IF schema.has THEN MapSet(_schemas, event_type, schema.s) ELSE _schemas
    /\ registered' = MapSet(registered, event_type, Append(OrDefault(registered, event_type, <<>>), TRUE))
    /\ UNCHANGED <<_event_history, disk, _cache, calls, log, clock, last, written>>
    /\ UNCHANGED <<chainvars, sidevars>>

\* subscribe (172-180)
BusSubscribe(event_type, handler) ==
    /\ Len(HandlersOf(event_type)) < MaxSubscribed
    /\ _handlers' = MapSet(_handlers, event_type, Append(HandlersOf(event_type), handler))
    /\ registered' = MapSet(registered, event_type, Append(OrDefault(registered, event_type, <<>>), FALSE))
    /\ UNCHANGED <<_schemas, _event_history, disk, _cache, calls, log, clock, last, written>>
    /\ UNCHANGED <<chainvars, sidevars>>

\* unsubscribe (182-191)
BusUnsubscribe(event_type, handler) ==
    /\ event_type \in DOMAIN _handlers
    /\ \E i \in 1..Len(_handlers[event_type]) : _handlers[event_type][i] = handler
    /\ _handlers' = [_handlers EXCEPT ![event_type] = Remove(@, handler)]
    /\ registered' = [registered EXCEPT ![event_type] =
                          RemoveAt(@, FindChar(_handlers[event_type], handler, 1))]
    /\ UNCHANGED <<_schemas, _event_history, disk, _cache, calls, log, clock, last, written>>
    /\ UNCHANGED <<chainvars, sidevars>>

\* lines 139-149: a task is created for every handler before gather is awaited
StartAll(handlers) == [h \in 1..Len(handlers) |-> Pending]

\* publish(event_type, payload) is called by caller c: validation, history,
\* and the start of the handlers (87-149)
BusPublish(c, event_type, payload) ==
    /\ calls[c].at # "waiting"
    /\ Len(log) < MaxPublishes
    /\ LET started == PublishStart(_schemas, _handlers, _event_history, event_type, payload)
           call == [at |-> "raised", event_type |-> event_type, payload |-> payload,
                    handlers |-> <<>>, outcomes |-> <<>>, ret |-> None]
       IN IF ~started.ok
          THEN /\ calls' = [calls EXCEPT ![c] = [call EXCEPT !.ret = Err(started.type, started.msg)]]
               /\ UNCHANGED <<_event_history, log>>
          ELSE /\ _event_history' = started.v.history
               /\ log' = Append(log, BusEvent(event_type, started.v.data, "system"))
               /\ calls' = [calls EXCEPT ![c] =
                     IF started.v.handlers = <<>>
                     THEN [call EXCEPT !.at = "returned", !.ret = PublishReturn(<<>>, <<>>)]
                     ELSE [call EXCEPT !.at = "waiting", !.handlers = started.v.handlers,
                                       !.outcomes = StartAll(started.v.handlers)]]
    /\ UNCHANGED <<_handlers, _schemas, disk, _cache, clock, last, written>>
    /\ UNCHANGED <<chainvars, sidevars, registered>>

\* a handler started by a direct publish returns or raises (193-208)
BusHandlerEnds(c, h) ==
    /\ calls[c].at = "waiting"
    /\ h \in 1..Len(calls[c].outcomes)
    /\ calls[c].outcomes[h] = Pending
    /\ \E outcome \in Outcomes(calls[c].handlers[h]) :
         calls' = [calls EXCEPT ![c].outcomes[h] = outcome]
    /\ UNCHANGED <<_handlers, _schemas, _event_history, disk, _cache, log, clock, last, written>>
    /\ UNCHANGED <<chainvars, sidevars, registered>>

\* a wait that ends with the first handler that has ended
GatheredAny(outcomes) == \E h \in 1..Len(outcomes) : outcomes[h] # Pending

\* line 149: gather returns once every handler has returned or raised
GatheredAll(outcomes) == \A h \in 1..Len(outcomes) : outcomes[h] # Pending

\* lines 151-170: the results are keyed by handlers[i].__name__, read from the
\* list the event type has now (the list object of line 134, which subscribe
\* and unsubscribe change in place)
BusReturn(c) ==
    /\ calls[c].at = "waiting"
    /\ GatheredAll(calls[c].outcomes)
    /\ LET live == HandlersOf(calls[c].event_type)
           n == Len(calls[c].outcomes)
       IN calls' = [calls EXCEPT ![c] =
             IF Len(live) < n
             THEN [@ EXCEPT !.at = "raised", !.ret = Err("IndexError", "list index out of range")]
             ELSE [@ EXCEPT !.at = "returned", !.ret = PublishReturn(SubSeq(live, 1, n), calls[c].outcomes)]]
    /\ UNCHANGED <<_handlers, _schemas, _event_history, disk, _cache, log, clock, last, written>>
    /\ UNCHANGED <<chainvars, sidevars, registered>>

NoSchema == [has |-> FALSE, s |-> NowInput]
SchemaGiven == [has |-> TRUE, s |-> UserCreateInput]

\* a bus as constructed (52-63), with no chain run and no thread
BusInit ==
    /\ _handlers = EmptyMap
    /\ _schemas = EmptyMap
    /\ _event_history = <<>>
    /\ disk = EmptyMap
    /\ _cache = EmptyMap
    /\ lock = ""
    /\ _interpolator = ""
    /\ contexts = [r \in Runs |-> EmptyDict]
    /\ cur = NoTask
    /\ run = [r \in Runs |-> IdleRun]
    /\ calls = [c \in Callers |-> IdleCall]
    /\ log = <<>>
    /\ clock = 0
    /\ last = NoCall
    /\ written = EmptyMap
    /\ SideIdle

BusNext ==
    \/ \E handler \in Subscribers : BusRegister(USER_CREATE, SchemaGiven, handler)
    \/ \E handler \in Subscribers : BusSubscribe(USER_CREATE, handler)
    \/ \E handler \in Subscribers : BusUnsubscribe(USER_CREATE, handler)
    \/ \E payload \in Payloads : BusPublish("p", USER_CREATE, payload)
    \/ BusPublish("q", NOTE_ADD, Named)
    \/ \E c \in Callers, h \in 1..MaxSubscribed : BusHandlerEnds(c, h)
    \/ \E c \in Callers : BusReturn(c)

BusSpec == BusInit /\ [][BusNext]_vars

----------------------------------------------------------------------------
(* ThreadManager over ThreadStorage, its calls made one after another     *)
(* (thread_manager.py 111-261, thread_storage.py 87-185)                  *)

\* the threads and the event the callers of the thread manager use
StoreIds == {"t1"}
\* the number of calls made on the thread manager; the clock advances by one
\* with every call
MaxCalls == 4

\* datetime.now(timezone.utc).isoformat() at time n, and the time of a timestamp
Timestamp(n) == Str(NatChars(n))
Time(ts) == DigitsVal(ts.s)

\* ThreadEvent(event=..., result=..., timestamp=...) as asdict writes it
NewThreadEvent(event, result, timestamp) ==
    Dict(K("event") :> Str(event) @@ K("result") :> result @@ K("timestamp") :> timestamp
         @@ K("params") :> None @@ K("error") :> None)

\* Thread.add_event (39-51)
add_event(thread, event, result, t) ==
    [thread EXCEPT !.events = Append(@, NewThreadEvent(event, result, Timestamp(t))),
                   !.updated_at = Timestamp(t)]

\* Thread.to_dict (81-83)
to_dict(thread) ==
    Dict(K("thread_id") :> thread.thread_id @@ K("summary") :> thread.summary
         @@ K("status") :> thread.status @@ K("created_at") :> thread.created_at
         @@ K("updated_at") :> thread.updated_at @@ K("events") :> List(thread.events)
         @@ K("metadata") :> thread.metadata)

\* ThreadStorage.save (87-128): the file and the cache entry are written, or
\* the write fails, the exception is swallowed and False is returned
save(store, thread_id, thread_data, fails) ==
    IF fails THEN [ok |-> FALSE, disk |-> store.disk, cache |-> store.cache]
    ELSE [ok |-> TRUE, disk |-> MapSet(store.disk, thread_id, thread_data),
          cache |-> MapSet(store.cache, thread_id, thread_data)]

\* ThreadStorage.load (130-166): a fresh cache entry is returned; otherwise
\* the file, when there is one, is read and cached
load(store, thread_id, expired) ==
    IF thread_id \in DOMAIN store.cache /\ ~expired
    THEN [data |-> store.cache[thread_id], cache |-> store.cache]
    ELSE IF thread_id \notin DOMAIN store.disk
    THEN [data |-> None, cache |-> MapWithout(store.cache, thread_id)]
    ELSE [data |-> store.disk[thread_id], cache |-> MapSet(store.cache, thread_id, store.disk[thread_id])]

\* ThreadManager.get_thread (153-166): from_dict pops 'events' out of the
\* dict load returned, which is the dict the cache holds
get_thread(store, thread_id, expired) ==
    LET loaded == load(store, thread_id, expired)
        found == Truthy(loaded.data)
    IN [thread |-> IF found
                   THEN from_dict(MapWithout(loaded.data.d, K("events")),
                                  OrDefault(loaded.data.d, K("events"), List(<<>>)))
                   ELSE Ok(None),
        cache |-> IF found
                  THEN MapSet(loaded.cache, thread_id, Dict(MapWithout(loaded.data.d, K("events"))))
                  ELSE loaded.cache]

Store == [disk |-> disk, cache |-> _cache]

\* a call that reports no write
NoWrite == Raise("", "")

\* a call of the thread manager has ended: the store it leaves and what it returned
StoreCall(op, thread_id, ret, persisted, stored, events) ==
    /\ clock < MaxCalls
    /\ clock' = clock + 1
    /\ disk' = stored.disk
    /\ _cache' = stored.cache
    /\ last' = [op |-> op, tid |-> thread_id, ret |-> ret, persisted |-> persisted]
    /\ written' = IF events.ok THEN MapSet(written, thread_id, [by |-> op, events |-> events.v])
                  ELSE written
    /\ UNCHANGED <<_handlers, _schemas, _event_history, calls, log>>
    /\ UNCHANGED <<chainvars, sidevars, registered>>

\* create_thread(thread_id) (111-151)
StoreCreate(thread_id, fails) ==
    LET t == clock + 1
        thread == add_event([thread_id |-> Str(K(thread_id)), summary |-> Str(K("sum")),
                             status |-> Str(K("active")), created_at |-> Timestamp(t),
                             updated_at |-> Timestamp(t), events |-> <<>>, metadata |-> EmptyDict],
                            <<"thread", ".", "created">>, Dict(K("thread_id") :> Str(K(thread_id))), t)
        saved == save(Store, thread_id, to_dict(thread), fails)
    IN IF thread_id \in DOMAIN disk
       THEN /\ ~fails
            /\ StoreCall("create_thread", thread_id, Err("ValueError", "already exists"), FALSE, Store,
                         Raise("ValueError", "already exists"))
       ELSE StoreCall("create_thread", thread_id, thread, saved.ok, saved, Ok(thread.events))

\* get_thread(thread_id) (153-166)
StoreGet(thread_id, expired) ==
    LET got == get_thread(Store, thread_id, expired)
    IN /\ (expired => thread_id \in DOMAIN _cache)
       /\ StoreCall("get_thread", thread_id, IF got.thread.ok THEN got.thread.v ELSE Err(got.thread.type, got.thread.msg),
                    FALSE, [disk |-> disk, cache |-> got.cache], NoWrite)

\* the return value of add_event_to_thread once save has returned (259-261)
AppendReturn(saved) == Bool(TRUE)

\* add_event_to_thread(thread_id, event) (240-261)
StoreAddEvent(thread_id, event, expired, fails) ==
    LET t == clock + 1
        got == get_thread(Store, thread_id, expired)
        loaded == [disk |-> disk, cache |-> got.cache]
        thread == [got.thread.v EXCEPT !.events = Append(@, event), !.updated_at = Timestamp(t)]
        saved == save(loaded, thread_id, to_dict(thread), fails)
    IN /\ (expired => thread_id \in DOMAIN _cache)
       /\ got.thread.ok
       /\ IF got.thread.v = None
          THEN /\ ~fails
               /\ StoreCall("add_event_to_thread", thread_id, Bool(FALSE), FALSE, loaded, NoWrite)
          ELSE StoreCall("add_event_to_thread", thread_id, AppendReturn(saved.ok), saved.ok, saved,
                         IF AppendReturn(saved.ok) = Bool(TRUE) THEN Ok(thread.events) ELSE NoWrite)

\* archive_thread(thread_id) (190-211)
StoreArchive(thread_id, expired, fails) ==
    LET t == clock + 1
        got == get_thread(Store, thread_id, expired)
        loaded == [disk |-> disk, cache |-> got.cache]
        thread == add_event([got.thread.v EXCEPT !.status = Str(K("archived"))],
                            <<"thread", ".", "archived">>, Dict(K("thread_id") :> Str(K(thread_id))), t)
        saved == save(loaded, thread_id, to_dict(thread), fails)
    IN /\ (expired => thread_id \in DOMAIN _cache)
       /\ got.thread.ok
       /\ IF got.thread.v = None
          THEN /\ ~fails
               /\ StoreCall("archive_thread", thread_id, Bool(FALSE), FALSE, loaded, NoWrite)
          ELSE StoreCall("archive_thread", thread_id, Bool(TRUE), saved.ok, saved, Ok(thread.events))

\* a thread manager as constructed (102-109) over an empty storage directory
StoreInit ==
    /\ _handlers = EmptyMap
    /\ _schemas = EmptyMap
    /\ _event_history = <<>>
    /\ disk = EmptyMap
    /\ _cache = EmptyMap
    /\ lock = ""
    /\ _interpolator = ""
    /\ contexts = [r \in Runs |-> EmptyDict]
    /\ cur = NoTask
    /\ run = [r \in Runs |-> IdleRun]
    /\ calls = [c \in Callers |-> IdleCall]
    /\ log = <<>>
    /\ clock = 0
    /\ last = NoCall
    /\ written = EmptyMap
    /\ SideIdle

StoreNext ==
    \/ \E thread_id \in StoreIds, fails \in BOOLEAN : StoreCreate(thread_id, fails)
    \/ \E thread_id \in StoreIds, expired \in BOOLEAN : StoreGet(thread_id, expired)
    \/ \E thread_id \in StoreIds, n \in 1..NumResults, expired \in BOOLEAN, fails \in BOOLEAN :
          StoreAddEvent(thread_id, NewThreadEvent(TOOLS_NOW, Num(n), Timestamp(clock + 1)), expired, fails)
    \/ \E thread_id \in StoreIds, expired \in BOOLEAN, fails \in BOOLEAN : StoreArchive(thread_id, expired, fails)

StoreSpec == StoreInit /\ [][StoreNext]_vars

----------------------------------------------------------------------------
(* ThreadManager over ThreadStorage, its calls made concurrently: a call  *)
(* runs until it has to wait for a lock another call holds or for a file  *)
(* read or write (thread_manager.py 111-261, thread_storage.py 87-166)    *)

\* the threads the concurrent callers use, and the number of calls they make
WorkIds == {"t1", "t2"}
MaxWork == 3

\* asyncio.Lock.acquire: taken at once when free, otherwise the caller queues
Acquire(holder, queue, w) ==
    IF holder = "" THEN [holder |-> w, queue |-> queue]
    ELSE [holder |-> holder, queue |-> Append(queue, w)]

\* asyncio.Lock.release: the lock passes to the first waiter
Release(queue) ==
    IF queue = <<>> THEN [holder |-> "", queue |-> <<>>]
    ELSE [holder |-> Head(queue), queue |-> Tail(queue)]

\* the storage and the two locks as a call finds them
Now_ ==
    [disk |-> disk, cache |-> _cache,
     storage |-> [holder |-> lock, queue |-> waiters.storage],
     manager |-> [holder |-> _lock, queue |-> waiters.manager]]

\* a call that has returned: what it returned and what became of its write
\* ("written", "failed", or "none" when it wrote nothing)
Completed(w, wk, ret, write) ==
    <<[worker |-> w, op |-> wk.op, thread_id |-> wk.thread_id, k |-> wk.k, ret |-> ret, write |-> write]>>

\* a call has run up to its next wait or to its return
WorkStep(w, st, wk, finished) ==
    /\ disk' = st.disk
    /\ _cache' = st.cache
    /\ lock' = st.storage.holder
    /\ _lock' = st.manager.holder
    /\ waiters' = [storage |-> st.storage.queue, manager |-> st.manager.queue]
    /\ work' = [work EXCEPT ![w] = wk]
    /\ done' = done \o finished
    /\ clock' = IF work[w].at = "idle" THEN clock + 1 ELSE clock
    /\ UNCHANGED <<_handlers, _schemas, _event_history, _interpolator, contexts, cur, run>>
    /\ UNCHANGED <<calls, log, last, written, interp, _persistence_file, registered>>

\* ThreadStorage.save up to its write (97-104): the storage lock is taken or
\* waited for, then the temp file is written
save_begin(w, st, wk, thread) ==
    LET l == Acquire(st.storage.holder, st.storage.queue, w)
    IN WorkStep(w, [st EXCEPT !.storage = l],
                [wk EXCEPT !.thread = thread, !.at = IF l.holder = w THEN "save_write" ELSE "save_lock"],
                <<>>)

\* the event add_event_to_thread call k is given
WorkEvent(k) == NewThreadEvent(NOTE_ADD, Num(k), Timestamp(k))

\* add_event_to_thread from the return of load on (250-261)
loaded(w, st, wk, expired) ==
    LET got == get_thread([disk |-> st.disk, cache |-> st.cache], wk.thread_id, expired)
        st1 == [st EXCEPT !.cache = got.cache, !.storage = Release(st.storage.queue)]
    IN IF ~got.thread.ok
       THEN WorkStep(w, st1, IdleWork, Completed(w, wk, Err(got.thread.type, got.thread.msg), "none"))
       ELSE IF got.thread.v = None
       THEN WorkStep(w, st1, IdleWork, Completed(w, wk, Bool(FALSE), "none"))
       ELSE save_begin(w, st1, wk,
                       [got.thread.v EXCEPT !.events = Append(@, WorkEvent(wk.k)),
                                            !.updated_at = Timestamp(wk.k)])

\* ThreadStorage.load with the lock held (141-160): a fresh cache entry or a
\* missing file ends it at once, otherwise the file is read
after_load(w, st, wk, expired) ==
    IF ~(wk.thread_id \in DOMAIN st.cache /\ ~expired) /\ wk.thread_id \in DOMAIN st.disk
    THEN WorkStep(w, [st EXCEPT !.cache = MapWithout(@, wk.thread_id)], [wk EXCEPT !.at = "load_read"], <<>>)
    ELSE loaded(w, st, wk, expired)

\* Thread(thread_id=..., summary=...) with its creation event (135-145)
NewThread(thread_id, t) ==
    add_event([thread_id |-> Str(K(thread_id)), summary |-> Str(K("sum")),
               status |-> Str(K("active")), created_at |-> Timestamp(t),
               updated_at |-> Timestamp(t), events |-> <<>>, metadata |-> EmptyDict],
              <<"thread", ".", "created">>, Dict(K("thread_id") :> Str(K(thread_id))), t)

\* create_thread with ThreadManager._lock held (121-148)
create_body(w, st, wk) ==
    IF wk.thread_id \in DOMAIN st.disk
    THEN WorkStep(w, [st EXCEPT !.manager = Release(st.manager.queue)], IdleWork,
                  Completed(w, wk, Err("ValueError", "already exists"), "none"))
    ELSE save_begin(w, st, wk, NewThread(wk.thread_id, wk.k))

\* a worker calls create_thread(thread_id) (111-151)
WorkCreate(w, thread_id) ==
    LET l == Acquire(_lock, waiters.manager, w)
        wk == [at |-> "create_lock", op |-> "create_thread", thread_id |-> thread_id,
               k |-> clock + 1, thread |-> None]
    IN /\ work[w].at = "idle"
       /\ clock < MaxWork
       /\ IF l.holder = w THEN create_body(w, [Now_ EXCEPT !.manager = l], wk)
          ELSE WorkStep(w, [Now_ EXCEPT !.manager = l], wk, <<>>)

\* ThreadManager._lock has passed to a waiting create_thread
WorkCreateLocked(w) ==
    /\ work[w].at = "create_lock"
    /\ _lock = w
    /\ create_body(w, Now_, work[w])

\* a worker calls add_event_to_thread(thread_id, event) (240-261)
WorkAddEvent(w, thread_id, expired) ==
    LET l == Acquire(lock, waiters.storage, w)
        wk == [at |-> "load_lock", op |-> "add_event_to_thread", thread_id |-> thread_id,
               k |-> clock + 1, thread |-> None]
    IN /\ work[w].at = "idle"
       /\ clock < MaxWork
       /\ (expired => thread_id \in DOMAIN _cache /\ l.holder = w)
       /\ IF l.holder = w THEN after_load(w, [Now_ EXCEPT !.storage = l], wk, expired)
          ELSE WorkStep(w, [Now_ EXCEPT !.storage = l], wk, <<>>)

\* ThreadStorage._lock has passed to a waiting load
WorkLoadLocked(w, expired) ==
    /\ work[w].at = "load_lock"
    /\ lock = w
    /\ (expired => work[w].thread_id \in DOMAIN _cache)
    /\ after_load(w, Now_, work[w], expired)

\* the file read of load has ended (155-160)
WorkLoadRead(w) ==
    /\ work[w].at = "load_read"
    /\ loaded(w, Now_, work[w], FALSE)

\* ThreadStorage._lock has passed to a waiting save
WorkSaveLocked(w) ==
    /\ work[w].at = "save_lock"
    /\ lock = w
    /\ WorkStep(w, Now_, [work[w] EXCEPT !.at = "save_write"], <<>>)

\* the release of ThreadManager._lock when create_thread returns (121, 151)
ManagerLock(w, wk, queue) ==
    IF wk.op = "create_thread" THEN Release(queue) ELSE [holder |-> _lock, queue |-> queue]

\* the write of save has ended (104-124): the file and the cache are written
\* or the write has failed; the call returns
WorkSaveWritten(w, fails) ==
    LET wk == work[w]
        saved == save(Store, wk.thread_id, to_dict(wk.thread), fails)
        st == [Now_ EXCEPT !.disk = saved.disk, !.cache = saved.cache,
                           !.storage = Release(waiters.storage),
                           !.manager = ManagerLock(w, wk, waiters.manager)]
    IN /\ wk.at = "save_write"
       /\ WorkStep(w, st, IdleWork,
                   Completed(w, wk, IF wk.op = "create_thread" THEN wk.thread ELSE AppendReturn(saved.ok),
                             IF saved.ok THEN "written" ELSE "failed"))

\* a thread manager as constructed (102-109) over an empty storage directory,
\* the metadata index of the storage built
WorkInit ==
    /\ StoreInit

WorkNext ==
    \/ \E w \in Workers, thread_id \in WorkIds : WorkCreate(w, thread_id)
    \/ \E w \in Workers : WorkCreateLocked(w)
    \/ \E w \in Workers, thread_id \in WorkIds, expired \in BOOLEAN : WorkAddEvent(w, thread_id, expired)
    \/ \E w \in Workers, expired \in BOOLEAN : WorkLoadLocked(w, expired)
    \/ \E w \in Workers : WorkLoadRead(w)
    \/ \E w \in Workers : WorkSaveLocked(w)
    \/ \E w \in Workers, fails \in BOOLEAN : WorkSaveWritten(w, fails)

WorkSpec == WorkInit /\ [][WorkNext]_vars

----------------------------------------------------------------------------
(* A ParameterInterpolator called on its own: interpolate and add_result  *)
(* applied to inputs drawn from small sets (parameter_interpolator.py)    *)

\* the number of add_result calls made on one interpolator
MaxAdds == 2

\* "{path}"
Expr(path) == <<"{">> \o path \o <<"}">>
\* "[i]"
Index(i) == <<"[">> \o IntChars(i) \o <<"]">>
NowResult == TOOLS_NOW \o <<".", "result">>
Missing == <<"no", ".", "such">>
\* the indexes tried on a list of at most two elements
Indexes == (0 - 3)..2

\* the event names and results given to add_result
InterpNames == {TOOLS_NOW, <<"tools">>, <<"summary", ".", "make">>, <<"tools", ".", ".", "now">>}
InterpResults == {Num(1), Str(<<"x">>), List(<<Num(1), Num(2)>>), Dict(K("name") :> Str(<<"Al">>))}

\* the strings given to interpolate: without an expression, one expression
\* alone, expressions inside a longer string
InterpStrings ==
    {<<"plain">>, <<"{", "}">>, <<"a", "}", "{">>,
     Expr(NowResult), Expr(Missing), Expr(<<"summary">>),
     <<"at", " ">> \o Expr(NowResult) \o <<"!">>,
     Expr(Missing) \o <<" ">> \o Expr(NowResult),
     Expr(NowResult) \o <<"/">> \o Expr(NowResult \o Index(5))}
    \cup {Expr(NowResult \o Index(i)) : i \in Indexes}
    \cup {<<"#">> \o Expr(NowResult \o Index(i)) : i \in Indexes}

\* the values given to interpolate
InterpValues ==
    {Str(s) : s \in InterpStrings}
    \cup {Num(7), None, Bool(TRUE),
          List(<<Str(<<"plain">>), Dict(K("k") :> Str(<<"{", "}">>)), Num(7)>>),
          Dict(K("a") :> Str(<<"at", " ">> \o Expr(NowResult) \o <<"!">>)
               @@ K("b") :> List(<<Str(Expr(NowResult)), Str(Expr(Missing))>>))}

\* the contexts an interpolator is constructed with (31): none, and the
\* context of a thread that has just been created
InterpContexts == {EmptyDict, get_context(NewThread("t1", 1)).v}

\* interpolate(value) (33-50)
InterpInterpolate(value) ==
    /\ interp.op # "none"
    /\ interp' = [op |-> "interpolate", context |-> interp.context, value |-> value,
                  out |-> interpolate(interp.context, value)]
    /\ UNCHANGED <<_handlers, _schemas, _event_history, disk, _cache, calls, log, clock, last, written>>
    /\ UNCHANGED <<chainvars, workvars, _persistence_file, registered>>

\* add_result(event_name, result) (163-180)
InterpAddResult(event_name, result) ==
    LET added == add_result(interp.context, event_name, result)
    IN /\ interp.op # "none"
       /\ clock < MaxAdds
       /\ clock' = clock + 1
       /\ interp' = [op |-> "add_result", context |-> IF added.ok THEN added.v ELSE interp.context,
                     event_name |-> event_name, result |-> result, raised |-> ~added.ok]
       /\ UNCHANGED <<_handlers, _schemas, _event_history, disk, _cache, calls, log, last, written>>
       /\ UNCHANGED <<chainvars, workvars, _persistence_file, registered>>

\* ParameterInterpolator(context) (26-31)
InterpInit ==
    /\ _handlers = EmptyMap
    /\ _schemas = EmptyMap
    /\ _event_history = <<>>
    /\ disk = EmptyMap
    /\ _cache = EmptyMap
    /\ lock = ""
    /\ _interpolator = ""
    /\ contexts = [r \in Runs |-> EmptyDict]
    /\ cur = NoTask
    /\ run = [r \in Runs |-> IdleRun]
    /\ calls = [c \in Callers |-> IdleCall]
    /\ log = <<>>
    /\ clock = 0
    /\ last = NoCall
    /\ written = EmptyMap
    /\ WorkIdle
    /\ _persistence_file = None
    /\ registered = EmptyMap
    /\ \E context \in InterpContexts : interp = [op |-> "new", context |-> context]

InterpNext ==
    \/ \E value \in InterpValues : InterpInterpolate(value)
    \/ \E event_name \in InterpNames, result \in InterpResults : InterpAddResult(event_name, result)

InterpSpec == InterpInit /\ [][InterpNext]_vars

----------------------------------------------------------------------------
(* ConcurrentEventBus constructed with a persistence file: the file is    *)
(* read at construction and every published event is appended to it       *)
(* (event_bus.py 52-68, 119-128, 258-321)                                  *)

\* a line of the file: text that json.loads rejects, or the JSON text of a value
NotJson == [json |-> FALSE]
JsonLine(v) == [json |-> TRUE, v |-> v]
BlankLine == JsonLine(Str(<<>>))

\* json.dumps(event.to_dict()) (30-37, 266-267) for an event published at time t
EventLine(event, t) ==
    JsonLine(Dict(K("type") :> Str(event.type) @@ K("data") :> event.data
                  @@ K("timestamp") :> Timestamp(t) @@ K("source") :> Str(K(event.source))))

\* datetime.fromisoformat(timestamp.replace('Z', '+00:00')) (304)
fromisoformat(timestamp) ==
    IF ~IsStr(timestamp) THEN Raise("AttributeError", "no attribute replace")
    ELSE IF timestamp.s = <<>> \/ \E i \in 1..Len(timestamp.s) : timestamp.s[i] \notin Digit
    THEN Raise("ValueError", "Invalid isoformat string")
    ELSE Ok(Time(timestamp))

\* lines 300-306: json.loads and the construction of the Event, its arguments
\* evaluated in order
EventOfLine(line) ==
    IF ~line.json THEN Raise("JSONDecodeError", "Invalid JSON")
    ELSE IF ~IsDict(line.v) THEN Raise("TypeError", "indices must be integers")
    ELSE IF ~HasKey(line.v, K("type")) THEN Raise("KeyError", "type")
    ELSE IF ~HasKey(line.v, K("data")) THEN Raise("KeyError", "data")
    ELSE IF ~HasKey(line.v, K("timestamp")) THEN Raise("KeyError", "timestamp")
    ELSE IF ~fromisoformat(Get(line.v, K("timestamp"))).ok THEN fromisoformat(Get(line.v, K("timestamp")))
    ELSE IF ~HasKey(line.v, K("source")) THEN Raise("KeyError", "source")
    ELSE Ok([type |-> Get(line.v, K("type")).s, data |-> Get(line.v, K("data")),
             source |-> Get(line.v, K("source")).s[1]])

\* the errors the loop of _load_events_from_file catches for one line (313-316)
SkippedOnly == {"JSONDecodeError", "KeyError"}

\* _load_events_from_file (289-321) from line i on: a blank line is passed
\* over, an event is appended under the cap, an error caught for the line
\* skips it, any other error ends the read
RECURSIVE LoadLines(_, _, _, _)
LoadLines(lines, i, history, skipped) ==
    IF i > Len(lines) THEN history
    ELSE IF lines[i] = BlankLine THEN LoadLines(lines, i + 1, history, skipped)
    ELSE LET event == EventOfLine(lines[i])
         IN IF event.ok THEN LoadLines(lines, i + 1, Remember(history, event.v), skipped)
            ELSE IF event.type \in skipped THEN LoadLines(lines, i + 1, history, skipped)
            ELSE history

_load_events_from_file(lines) == LoadLines(lines, 1, <<>>, SkippedOnly)

\* the lines found in the file when a bus is constructed over it
GoodLine(n) == EventLine(BusEvent(NOTE_ADD, Dict(K("n") :> Num(n)), "system"), n)
InitialFiles ==
    {<<>>,
     <<GoodLine(1), NotJson, BlankLine, GoodLine(2)>>,
     <<GoodLine(1), JsonLine(Dict(K("type") :> Str(NOTE_ADD))), GoodLine(2)>>,
     <<GoodLine(1), JsonLine(List(<<Num(1)>>)), GoodLine(2)>>,
     <<JsonLine(Dict(K("type") :> Str(NOTE_ADD) @@ K("data") :> EmptyDict
                     @@ K("timestamp") :> Str(<<"yesterday">>) @@ K("source") :> Str(K("system")))),
       GoodLine(2)>>}

\* ConcurrentEventBus(persistence_file) (52-68) over a file with these lines
Constructed(lines) ==
    /\ _handlers = EmptyMap
    /\ _schemas = EmptyMap
    /\ registered = EmptyMap
    /\ _persistence_file = lines
    /\ _event_history = _load_events_from_file(lines)
    /\ last = [op |-> "load", lines |-> lines, history |-> _load_events_from_file(lines)]
    /\ calls = [c \in Callers |-> IdleCall]

\* publish(event_type, payload) on a bus with a file: validation and history,
\* then the wait for the write of the line (87-128)
FilePublish(c, event_type, payload) ==
    /\ calls[c].at \notin {"persisting", "waiting"}
    /\ Len(log) < MaxPublishes
    /\ LET started == PublishStart(_schemas, _handlers, _event_history, event_type, payload)
           call == [at |-> "raised", event_type |-> event_type, payload |-> payload,
                    handlers |-> <<>>, outcomes |-> <<>>, ret |-> None, line |-> "none"]
       IN IF ~started.ok
          THEN /\ calls' = [calls EXCEPT ![c] = [call EXCEPT !.ret = Err(started.type, started.msg)]]
               /\ UNCHANGED <<_event_history, log>>
          ELSE /\ _event_history' = started.v.history
               /\ log' = Append(log, BusEvent(event_type, started.v.data, "system"))
               /\ calls' = [calls EXCEPT ![c] = [call EXCEPT !.at = "persisting", !.payload = started.v.data]]
    /\ UNCHANGED <<_handlers, _schemas, disk, _cache, clock, last, written>>
    /\ UNCHANGED <<chainvars, sidevars, registered>>

\* a _persist_event that lets the error of the write out
_persist_event_raising(lines, line, fails) ==
    IF fails THEN [ok |-> FALSE, lines |-> lines, type |-> "OSError", msg |-> "write failed"]
    ELSE [ok |-> TRUE, lines |-> Append(lines, line)]

\* _persist_event (258-274): the line is appended to the file, or the write
\* fails and the error is logged
_persist_event(lines, line, fails) ==
    IF fails THEN [ok |-> TRUE, lines |-> lines]
    ELSE [ok |-> TRUE, lines |-> Append(lines, line)]

\* the write of the line has ended; the handlers the event type has now are
\* started (126-149)
FilePersisted(c, fails) ==
    /\ calls[c].at = "persisting"
    /\ LET event == BusEvent(calls[c].event_type, calls[c].payload, "system")
           persisted == _persist_event(_persistence_file, EventLine(event, Len(log)), fails)
           handlers == HandlersOf(calls[c].event_type)
           call == [calls[c] EXCEPT !.line = IF fails THEN "failed" ELSE "written"]
       IN /\ _persistence_file' = persisted.lines
          /\ calls' = [calls EXCEPT ![c] =
                IF ~persisted.ok
                THEN [call EXCEPT !.at = "raised", !.ret = Err(persisted.type, persisted.msg)]
                ELSE IF handlers = <<>>
                THEN [call EXCEPT !.at = "returned", !.ret = PublishReturn(<<>>, <<>>)]
                ELSE [call EXCEPT !.at = "waiting", !.handlers = handlers, !.outcomes = StartAll(handlers)]]
    /\ UNCHANGED <<_handlers, _schemas, _event_history, disk, _cache, log, clock, last, written>>
    /\ UNCHANGED <<chainvars, workvars, interp, registered>>

\* the process ends and a new bus is constructed over the file (52-68)
FileRestart ==
    /\ calls["p"].at \notin {"persisting", "waiting"}
    /\ last.lines # _persistence_file
    /\ _handlers' = EmptyMap
    /\ _schemas' = EmptyMap
    /\ registered' = EmptyMap
    /\ _persistence_file' = _persistence_file
    /\ _event_history' = _load_events_from_file(_persistence_file)
    /\ last' = [op |-> "load", lines |-> _persistence_file,
                history |-> _load_events_from_file(_persistence_file)]
    /\ calls' = [c \in Callers |-> IdleCall]
    /\ UNCHANGED <<disk, _cache, log, clock, written>>
    /\ UNCHANGED <<chainvars, workvars, interp>>

FileInit ==
    /\ disk = EmptyMap
    /\ _cache = EmptyMap
    /\ lock = ""
    /\ _interpolator = ""
    /\ contexts = [r \in Runs |-> EmptyDict]
    /\ cur = NoTask
    /\ run = [r \in Runs |-> IdleRun]
    /\ log = <<>>
    /\ clock = 0
    /\ written = EmptyMap
    /\ WorkIdle
    /\ interp = NoCall
    /\ \E lines \in InitialFiles : Constructed(lines)

FileNext ==
    \/ BusRegister(USER_CREATE, SchemaGiven, K("create"))
    \/ BusSubscribe(USER_CREATE, K("audit"))
    \/ \E payload \in Payloads : FilePublish("p", USER_CREATE, payload)
    \/ \E fails \in BOOLEAN : FilePersisted("p", fails)
    \/ \E h \in 1..MaxSubscribed : BusHandlerEnds("p", h)
    \/ BusReturn("p")
    \/ FileRestart

FileSpec == FileInit /\ [][FileNext]_vars

----------------------------------------------------------------------------
(* Properties *)

Items(r) == 1..Len(run[r].chain)
Members(r, i) == 1..Len(run[r].steps[i])
Started(step) == step.at # "new"
Recorded(step) == step.at = "done" /\ (step.ce.result # None \/ step.ce.error # None)
ChainFields(thread_id) == K("_thread_id") :> Str(K(thread_id)) @@ K("_chain_execution") :> Bool(TRUE)

\* the chain events of the chain elements 1..i, member by member
RECURSIVE EventsThrough(_, _)
EventsThrough(r, i) ==
    IF i = 0 THEN <<>>
    ELSE EventsThrough(r, i - 1) \o [j \in Members(r, i) |-> run[r].steps[i][j].ce]

\* the chain events of the steps of elements 1..i that have ended
RECURSIVE AttemptedThrough(_, _)
AttemptedThrough(r, i) ==
    IF i = 0 THEN <<>>
    ELSE AttemptedThrough(r, i - 1)
         \o SelectSeq([j \in Members(r, i) |-> run[r].steps[i][j].ce],
                      LAMBDA ce : \E j \in Members(r, i) : run[r].steps[i][j].at = "done" /\ run[r].steps[i][j].ce = ce)

NoneStartedAfter(r, i) ==
    \A i2 \in Items(r) : i2 > i => \A j \in Members(r, i2) : ~Started(run[r].steps[i2][j])

\* C1: once a sequential step has ended with an error, the run only returns:
\* no later chain element is ever started, and the result returned has
\* success false, the message of the failed event, and the events of all the
\* steps up to the failed one, in chain order, the failed one last.
C1_SequentialErrorEndsRun ==
    \A r \in Runs : \A i \in Items(r) :
        LET step == run[r].steps[i][1]
        IN (~run[r].chain[i].parallel /\ step.at = "done" /\ step.ce.error # None) =>
              /\ run[r].pc \in {"after_step", "done"}
              /\ NoneStartedAfter(r, i)
              /\ run[r].pc = "done" =>
                    run[r].ret = EventChainResult(run[r].thread_id, EventsThrough(r, i), FALSE,
                                                  [event |-> step.ce.event, message |-> step.ce.error.message])

C1_Witness ==
    \E r \in Runs : \E i \in Items(r) :
        /\ 1 < i /\ i < Len(run[r].chain)
        /\ ~run[r].chain[i].parallel
        /\ run[r].steps[i][1].ce.error # None
        /\ run[r].pc = "done"
        /\ ~run[r].ret.success
        /\ Len(run[r].ret.events) = i

\* C2: no call of execute_chain raises, and a returned result carries the
\* event of every step that was executed.
C2_NeverRaises ==
    \A r \in Runs :
        /\ run[r].pc # "raised"
        /\ run[r].pc = "done" => run[r].ret.events = AttemptedThrough(r, Len(run[r].chain))

\* C3: a step of a chain element has started only if every step of every
\* earlier element of the run has its result or error recorded.
C3_ElementsInOrder ==
    \A r \in Runs : \A i \in Items(r) : \A j \in Members(r, i) :
        Started(run[r].steps[i][j]) =>
            \A i0 \in 1..(i - 1) : \A j0 \in Members(r, i0) : Recorded(run[r].steps[i0][j0])

C3_Witness ==
    \E r \in Runs : \E i \in Items(r) :
        /\ i > 1
        /\ run[r].chain[i - 1].parallel
        /\ Len(run[r].steps[i - 1]) = 2
        /\ run[r].steps[i][1].at = "done"
        /\ run[r].steps[i][1].publishes = 1

\* the steps for tools.now of element i that were published and ended without error
NowResults(r, i) ==
    {run[r].steps[i][j].ce.result : j \in {m \in Members(r, i) :
        /\ run[r].steps[i][m].ce.event = TOOLS_NOW
        /\ run[r].steps[i][m].at = "done"
        /\ run[r].steps[i][m].publishes = 1
        /\ run[r].steps[i][m].ce.error = None}}

\* C4: a sequential step whose param 'from' is the whole-string reference
\* {tools.now.result} is published with the result of the most recent earlier
\* tools.now step of its run as 'from'.
C4_ReferenceSeesEarlierResult ==
    \A r \in Runs : \A i \in Items(r) :
        LET step == run[r].steps[i][1]
            earlier == {i0 \in 1..(i - 1) : NowResults(r, i0) # {}}
            latest == CHOOSE i0 \in earlier : \A i1 \in earlier : i1 <= i0
        IN (/\ ~run[r].chain[i].parallel
            /\ step.publishes = 1
            /\ HasKey(step.spec.params, K("from"))
            /\ Get(step.spec.params, K("from")) = NowRef
            /\ earlier # {})
           => Get(step.published, K("from")) \in NowResults(r, latest)

C6_GroupErrorStopsRun ==
    \A r \in Runs : \A i \in Items(r) :
        (/\ run[r].chain[i].parallel
         /\ \A j \in Members(r, i) : run[r].steps[i][j].at = "done"
         /\ \E j \in Members(r, i) : run[r].steps[i][j].ce.error # None)
        => /\ NoneStartedAfter(r, i)
           /\ run[r].pc = "done" => (~run[r].ret.success /\ run[r].ret.events = EventsThrough(r, i))

\* C7: a step whose target handler raised has the error on its event, no
\* later chain element is started, and the result returned has success false
\* and an error.
C7_HandlerErrorFailsStep ==
    \A r \in Runs : \A i \in Items(r) : \A j \in Members(r, i) :
        LET step == run[r].steps[i][j]
        IN (step.at = "done" /\ \E h \in 1..Len(step.outcomes) : step.outcomes[h].raised) =>
              /\ step.ce.error # None
              /\ NoneStartedAfter(r, i)
              /\ run[r].pc = "done" => (~run[r].ret.success /\ run[r].ret.error # None)

\* C8: a step whose decide prompt was answered with action skip has ended
\* without publishing its target event and without a repair call, its event
\* has the result {skipped: true, reason} and no error, and the run went on:
\* it has not returned before starting the next chain element, and returns
\* success when the step was the last one.
C8_SkipShortCircuits ==
    \A r \in Runs : \A i \in Items(r) : \A j \in Members(r, i) :
        LET step == run[r].steps[i][j]
        IN (step.decides = 1 /\ HasKey(step.decided, K("action")) /\ Get(step.decided, K("action")) = Str(K("skip"))) =>
              /\ step.at = "done"
              /\ step.publishes = 0
              /\ step.repairs = 0
              /\ step.ce.result = Dict(K("skipped") :> Bool(TRUE) @@ K("reason") :> Get(step.decided, K("reason")))
              /\ step.ce.error = None
              /\ (run[r].pc = "done" /\ i < Len(run[r].chain)) => Started(run[r].steps[i + 1][1])
              /\ (run[r].pc = "done" /\ i = Len(run[r].chain)) => run[r].ret.success

C8_Witness ==
    \E r \in Runs : \E i \in Items(r) :
        /\ i < Len(run[r].chain)
        /\ run[r].steps[i][1].decides = 1
        /\ HasKey(run[r].steps[i][1].decided, K("action"))
        /\ Get(run[r].steps[i][1].decided, K("action")) = Str(K("skip"))
        /\ run[r].steps[i + 1][1].publishes = 1

C10_RunOwnsContext ==
    \A r \in Runs : \A i \in Items(r) : \A j \in Members(r, i) :
        LET step == run[r].steps[i][j]
        IN /\ step.ip0 # None => step.ip0 = step.own0
           /\ step.folds \in {"", r}

\* the events of the thread record data
EventsOf(data) == IF HasKey(data, K("events")) THEN Get(data, K("events")).l ELSE <<>>

\* the number of events the finished runs against thread tid have produced
RECURSIVE Produced(_, _)
Produced(tid, rs) ==
    IF rs = {} THEN 0
    ELSE LET r == CHOOSE x \in rs : TRUE
         IN (IF run[r].pc = "done" /\ run[r].thread_id = tid THEN Len(run[r].ret.events) ELSE 0)
            + Produced(tid, rs \ {r})

\* C11: the event log of a stored thread is the log it had before the runs,
\* unchanged, followed by as many entries as the runs that have returned
\* against it have produced events.
C11_RunsAppendToThread ==
    \A tid \in DOMAIN InitialDisk :
        /\ tid \in DOMAIN disk
        /\ Len(EventsOf(disk[tid])) = Len(EventsOf(InitialDisk[tid])) + Produced(tid, Runs)
        /\ SubSeq(EventsOf(disk[tid]), 1, Len(EventsOf(InitialDisk[tid]))) = EventsOf(InitialDisk[tid])

\* C12: a publish whose payload fails the schema registered for its event
\* type raises ValidationError, starts no handler and leaves the history (and
\* the record of validated events) as it was.
C12_InvalidPayloadAborts ==
    [][\A c \in Callers :
          (/\ calls[c].at # "waiting"
           /\ calls'[c] # calls[c]
           /\ calls'[c].event_type \in DOMAIN _schemas
           /\ ~Validate(_schemas[calls'[c].event_type], calls'[c].payload).ok)
          => /\ calls'[c].at = "raised"
             /\ calls'[c].ret = Err("ValidationError", Validate(_schemas[calls'[c].event_type], calls'[c].payload).msg)
             /\ calls'[c].handlers = <<>>
             /\ _event_history' = _event_history
             /\ log' = log]_vars

C12_Witness ==
    \E c \in Callers :
        /\ calls[c].at = "raised"
        /\ calls[c].ret.type = "ValidationError"
        /\ HandlersOf(calls[c].event_type) # <<>>
        /\ _event_history # <<>>

\* C13: a publish to two or more subscribers of which one raises returns a
\* map in which every subscriber's name has that subscriber's own outcome:
\* {error: message} for one that raised, the returned value for the others.
C13_SubscriberFailureIsolated ==
    \A c \in Callers :
        (/\ calls[c].at \in {"returned", "raised"}
         /\ Len(calls[c].outcomes) >= 2
         /\ \E h \in 1..Len(calls[c].outcomes) : calls[c].outcomes[h].raised)
        => /\ calls[c].at = "returned"
           /\ \A h \in 1..Len(calls[c].outcomes) :
                 /\ HasKey(calls[c].ret, calls[c].handlers[h])
                 /\ Get(calls[c].ret, calls[c].handlers[h]) = HandlerResult(calls[c].outcomes[h])

\* C14: a publish that returns gives the sole subscriber's result itself when
\* one subscriber was subscribed, the empty result when none was, and neither
\* of the two when there were several.
C14_SingleHandlerUnwrapped ==
    \A c \in Callers :
        calls[c].at = "returned" =>
            LET n == Len(calls[c].outcomes)
            IN /\ n = 0 => calls[c].ret = EmptyDict
               /\ n = 1 => calls[c].ret = HandlerResult(calls[c].outcomes[1])
               /\ n >= 2 => /\ calls[c].ret # EmptyDict
                            /\ \A h \in 1..n : calls[c].ret # HandlerResult(calls[c].outcomes[h])

\* C15: a publish to n >= 2 subscribers returns a map of exactly n entries,
\* the entry of each subscriber being what that subscriber ended with.
C15_OneEntryPerSubscriber ==
    \A c \in Callers :
        (calls[c].at = "returned" /\ Len(calls[c].outcomes) >= 2) =>
            /\ IsDict(calls[c].ret)
            /\ Cardinality(DOMAIN calls[c].ret.d) = Len(calls[c].outcomes)
            /\ \A h \in 1..Len(calls[c].outcomes) :
                  /\ HasKey(calls[c].ret, calls[c].handlers[h])
                  /\ Get(calls[c].ret, calls[c].handlers[h]) = HandlerResult(calls[c].outcomes[h])

\* C16: while a publish waits, every subscriber of the event type has been
\* started and each pending one can end whatever the others do; a publish
\* has returned only when every subscriber has returned or raised.
C16_SubscribersRunConcurrently ==
    \A c \in Callers :
        /\ calls[c].at = "waiting" =>
              /\ Len(calls[c].outcomes) = Len(calls[c].handlers)
              /\ \A h \in 1..Len(calls[c].outcomes) :
                    calls[c].outcomes[h] = Pending => ENABLED BusHandlerEnds(c, h)
        /\ calls[c].at = "returned" =>
              \A h \in 1..Len(calls[c].outcomes) : calls[c].outcomes[h] # Pending

C16_Witness ==
    \E c \in Callers :
        /\ calls[c].at = "waiting"
        /\ Len(calls[c].outcomes) = 2
        /\ calls[c].outcomes[1] = Pending
        /\ calls[c].outcomes[2] # Pending

\* C17: the history is the last min(cap, k) of the k events published past
\* validation, in publish order, and is never longer than the cap.
C17_HistoryKeepsNewest ==
    LET k == Len(log)
        n == IF k < MaxHistory THEN k ELSE MaxHistory
    IN /\ Len(_event_history) <= MaxHistory
       /\ _event_history = SubSeq(log, k - n + 1, k)

C17_Witness ==
    /\ Len(log) > MaxHistory
    /\ Len(_event_history) = MaxHistory
    /\ _event_history[1] # log[1]

IsPrefix(a, b) == Len(a) <= Len(b) /\ SubSeq(b, 1, Len(a)) = a

\* C18: with every call of the thread manager a stored thread stays stored,
\* its event list is extended at the end only, and its updated_at does not
\* decrease and is later whenever the thread has changed.
C18_ThreadOnlyGrows ==
    [][\A tid \in DOMAIN disk :
          /\ tid \in DOMAIN disk'
          /\ IsPrefix(EventsOf(disk[tid]), EventsOf(disk'[tid]))
          /\ Time(Get(disk'[tid], K("updated_at"))) >= Time(Get(disk[tid], K("updated_at")))
          /\ disk'[tid] # disk[tid] =>
                Time(Get(disk'[tid], K("updated_at"))) > Time(Get(disk[tid], K("updated_at")))]_vars

\* C19: a get_thread whose last preceding write of the thread was an
\* add_event_to_thread that returned True returns the thread with exactly the
\* events that write left: the earlier ones in order and the added one last.
C19_ReadSeesLastWrite ==
    (/\ last.op = "get_thread"
     /\ last.tid \in DOMAIN written
     /\ written[last.tid].by = "add_event_to_thread")
    => /\ last.ret # None
       /\ last.ret.events = written[last.tid].events

\* C20: an add_event_to_thread whose save did not persist the thread does not
\* return True.
C20_FailedAppendReported ==
    (last.op = "add_event_to_thread" /\ last.ret = Bool(TRUE)) => last.persisted

\* the calls of one kind on a thread that have returned, in the order they returned
DoneOn(op, tid) == SelectSeq(done, LAMBDA d : d.op = op /\ d.thread_id = tid)
\* the events the returned add_event_to_thread calls on a thread were given
Appended(tid) ==
    LET adds == SelectSeq(DoneOn("add_event_to_thread", tid), LAMBDA d : d.ret = Bool(TRUE))
    IN [i \in 1..Len(adds) |-> WorkEvent(adds[i].k)]
\* no call is under way on the thread and no write of it has failed
Settled(tid) ==
    /\ \A w \in Workers : work[w].at # "idle" => work[w].thread_id # tid
    /\ \A i \in 1..Len(done) : done[i].thread_id = tid => done[i].write # "failed"

\* C21: once the add_event_to_thread calls on a thread have returned (no
\* write having failed), the stored thread holds its creation event followed
\* by the event of every call that returned True, once each, in the order
\* the calls returned.
C21_ConcurrentAppendsKept ==
    \A tid \in WorkIds :
        (Settled(tid) /\ tid \in DOMAIN disk /\ DoneOn("create_thread", tid) # <<>>) =>
            EventsOf(disk[tid]) = NewThread(tid, DoneOn("create_thread", tid)[1].k).events \o Appended(tid)

\* C30: of the create_thread calls on one thread id that have returned, in
\* the order they returned, the first has returned the thread and every later
\* one has raised ValueError.
C30_ThreadIdsUnique ==
    \A tid \in WorkIds :
        LET creates == DoneOn("create_thread", tid)
        IN \A i \in 1..Len(creates) :
               (creates[i].ret = Err("ValueError", "already exists")) <=> (i > 1)

\* a string holds an expression: a "{", at least one character that is no "}",
\* and a "}"
HasExpression(s) ==
    \E i \in 1..Len(s), j \in 1..Len(s) :
        /\ j > i + 1
        /\ s[i] = "{"
        /\ s[j] = "}"
        /\ \A n \in (i + 1)..(j - 1) : s[n] # "}"
\* no string of a value holds an expression
RECURSIVE NoExpression(_)
NoExpression(v) ==
    CASE v.k = "str" -> ~HasExpression(v.s)
      [] v.k = "dict" -> \A key \in DOMAIN v.d : NoExpression(v.d[key])
      [] v.k = "list" -> \A i \in 1..Len(v.l) : NoExpression(v.l[i])
      [] OTHER -> TRUE

\* C22: interpolate returns a value equal to its input whenever no string of
\* the input holds an expression, whatever the context.
C22_NoExpressionIdentity ==
    (interp.op = "interpolate" /\ NoExpression(interp.value)) => interp.out = interp.value

C22_Witness ==
    /\ interp.op = "interpolate"
    /\ interp.value.k = "list"
    /\ NoExpression(interp.value)
    /\ interp.context # EmptyDict
    /\ interp.out = interp.value

\* positions i and j of a string hold the braces of its only expression
OneExpression(s, i, j) ==
    /\ j > i + 1
    /\ s[i] = "{"
    /\ s[j] = "}"
    /\ \A n \in 1..Len(s) \ {i, j} : s[n] \notin {"{", "}"}
\* a value as text: JSON for a dict or a list, str() for the rest
Rendered(v) == IF IsDict(v) \/ IsList(v) THEN JsonDumps(v) ELSE PyStr(v)
AtNow == <<"at", " ">> \o Expr(NowResult) \o <<"!">>

\* C23: for a string with one expression that resolves, interpolate returns
\* the resolved value itself when the expression is the whole string, and
\* otherwise the string with the expression replaced by the value as text:
\* "[1, 2]" for the list, {"name": "Al"} for the dict, 1 and x for the scalars.
C23_WholeValueOrText ==
    (interp.op = "interpolate" /\ interp.value.k = "str") =>
        LET s == interp.value.s
            now == _resolve_path(interp.context, NowResult)
        IN /\ \A i \in 1..Len(s), j \in 1..Len(s) :
                 LET found == _resolve_path(interp.context, SubSeq(s, i + 1, j - 1))
                 IN (OneExpression(s, i, j) /\ found.ok) =>
                        IF i = 1 /\ j = Len(s) THEN interp.out = found.v
                        ELSE interp.out = Str(SubSeq(s, 1, i - 1) \o Rendered(found.v) \o SubSeq(s, j + 1, Len(s)))
           /\ (s = AtNow /\ now.ok) =>
                 /\ now.v = List(<<Num(1), Num(2)>>) =>
                        interp.out = Str(<<"at", " ", "[", "1", ",", " ", "2", "]", "!">>)
                 /\ now.v = Dict(K("name") :> Str(<<"Al">>)) =>
                        interp.out = Str(<<"at", " ", "{", "\"", "name", "\"", ":", " ", "\"", "Al", "\"", "}", "!">>)
                 /\ now.v = Num(1) => interp.out = Str(<<"at", " ", "1", "!">>)
                 /\ now.v = Str(<<"x">>) => interp.out = Str(<<"at", " ", "x", "!">>)

C23_Witness ==
    /\ interp.op = "interpolate"
    /\ interp.value = Str(Expr(NowResult))
    /\ interp.out = Dict(K("name") :> Str(<<"Al">>))

\* element i of a Python list, a negative i counting from the end
ItemAt(l, i) == IF i >= 0 THEN l[i + 1] ELSE l[Len(l) + i + 1]
\* index i is within -n..n-1 for the value, a list of n elements
InRange(v, i) == IsList(v) /\ i >= 0 - Len(v.l) /\ i <= Len(v.l) - 1

\* C24: interpolate returns a value and does not raise; an expression with a
\* missing key, or with an index outside -n..n-1 of an n-element list, stays
\* in the output as its text, an index within the range selects the element
\* (from the end when negative), and the other expressions of the same string
\* or of the same dict or list are replaced all the same.
C24_UnresolvedLeftLiteral ==
    interp.op = "interpolate" =>
        LET value == interp.value
            out == interp.out
            now == _resolve_path(interp.context, NowResult)
        IN /\ "k" \in DOMAIN out
           /\ value = Str(Expr(Missing)) => out = value
           /\ \A i \in Indexes :
                 /\ value = Str(Expr(NowResult \o Index(i))) =>
                        out = IF now.ok /\ InRange(now.v, i) THEN ItemAt(now.v.l, i) ELSE value
                 /\ value = Str(<<"#">> \o Expr(NowResult \o Index(i))) =>
                        out = IF now.ok /\ InRange(now.v, i)
                              THEN Str(<<"#">> \o Rendered(ItemAt(now.v.l, i))) ELSE value
           /\ value = Str(Expr(Missing) \o <<" ">> \o Expr(NowResult)) =>
                 out = Str(Expr(Missing) \o <<" ">>
                           \o (IF now.ok THEN Rendered(now.v) ELSE Expr(NowResult)))
           /\ value = Str(Expr(NowResult) \o <<"/">> \o Expr(NowResult \o Index(5))) =>
                 out = Str((IF now.ok THEN Rendered(now.v) ELSE Expr(NowResult))
                           \o <<"/">> \o Expr(NowResult \o Index(5)))
           /\ (value.k = "dict" /\ K("b") \in DOMAIN value.d) =>
                 /\ out.d[K("b")].l[2] = Str(Expr(Missing))
                 /\ out.d[K("b")].l[1] = IF now.ok THEN now.v ELSE Str(Expr(NowResult))
                 /\ out.d[K("a")] = IF now.ok THEN Str(<<"at", " ">> \o Rendered(now.v) \o <<"!">>)
                                     ELSE Str(AtNow)

C24_Witness ==
    /\ interp.op = "interpolate"
    /\ interp.value = Str(Expr(Missing) \o <<" ">> \o Expr(NowResult))
    /\ interp.out = Str(Expr(Missing) \o <<" ", "[", "1", ",", " ", "2", "]">>)

\* C25: add_result(n, v) returns without raising, and afterwards the string
\* "{n.result}" interpolates to v.
C25_AddedResultResolves ==
    interp.op = "add_result" =>
        /\ ~interp.raised
        /\ interpolate(interp.context, Str(Expr(interp.event_name \o <<".", "result">>))) = interp.result

\* the handlers of an event type's list that register put there
RegisteredHandlers(event_type) ==
    {h \in 1..Len(registered[event_type]) : registered[event_type][h]}

\* C26: the handler list of an event type, which is what a publish starts,
\* never holds more than one handler put there by register: a registration
\* replaces the one before it.
C26_LatestRegistrationOnly ==
    \A event_type \in DOMAIN registered : Cardinality(RegisteredHandlers(event_type)) <= 1

\* C27: a publish that has started handlers and is over has returned, not
\* raised, and has returned what the outcomes of the handlers it started give
\* under the names of those handlers, whatever was registered, subscribed or
\* unsubscribed while it waited.
C27_InFlightPublishUnaffected ==
    \A c \in Callers :
        (calls[c].at \in {"returned", "raised"} /\ calls[c].outcomes # <<>>) =>
            /\ calls[c].at = "returned"
            /\ calls[c].ret = PublishReturn(calls[c].handlers, calls[c].outcomes)

\* C28: when the write of the line fails the history is left as it is, with
\* the event as its newest entry, and every handler of the event type is
\* started; the publish does not raise and returns what the outcomes of
\* those handlers give.
C28_PersistFailureHarmless ==
    [][/\ (calls["p"].at = "persisting" /\ calls'["p"].line = "failed") =>
             /\ _event_history' = _event_history
             /\ _event_history[Len(_event_history)] =
                    BusEvent(calls["p"].event_type, calls["p"].payload, "system")
             /\ calls'["p"].at \in {"waiting", "returned"}
             /\ calls'["p"].handlers = HandlersOf(calls["p"].event_type)
             /\ Len(calls'["p"].outcomes) = Len(HandlersOf(calls["p"].event_type))
       /\ (calls'["p"].at \in {"returned", "raised"} /\ calls'["p"].line = "failed") =>
             /\ calls'["p"].at = "returned"
             /\ calls'["p"].ret = PublishReturn(calls'["p"].handlers, calls'["p"].outcomes)]_vars

C28_Witness ==
    /\ calls["p"].at = "returned"
    /\ calls["p"].line = "failed"
    /\ Len(calls["p"].outcomes) = 2
    /\ IsDict(calls["p"].ret)
    /\ _event_history[Len(_event_history)] = BusEvent(calls["p"].event_type, calls["p"].payload, "system")

\* the events of the lines of a file that can be turned into an event
LoadableEvents(lines) ==
    LET loadable == SelectSeq(lines, LAMBDA line : line # BlankLine /\ EventOfLine(line).ok)
    IN [i \in 1..Len(loadable) |-> EventOfLine(loadable[i]).v]

\* C29: the history a bus has after reading its file holds the events of the
\* lines that can be turned into an event, in file order (the newest ones, up
\* to the cap), whatever other lines stand before or after them.
C29_MalformedLinesSkipped ==
    last.op = "load" =>
        LET events == LoadableEvents(last.lines)
            n == IF Len(events) < MaxHistory THEN Len(events) ELSE MaxHistory
        IN last.history = SubSeq(events, Len(events) - n + 1, Len(events))

\* the event archive_thread appends
THREAD_ARCHIVED == <<"thread", ".", "archived">>
\* the thread file holds the events of the last write reported as done
OnDisk(tid) == tid \in DOMAIN disk /\ tid \in DOMAIN written /\ EventsOf(disk[tid]) = written[tid].events

\* C31: no call of the thread manager removes a stored thread; an
\* archive_thread on a stored thread appends one thread.archived event to the
\* events the thread had, in their order; and a get_thread on a thread whose
\* file holds its last write returns the thread with exactly those events,
\* with status archived when that write was an archive.
C31_ArchivedThreadKept ==
    [][/\ \A tid \in DOMAIN disk : tid \in DOMAIN disk'
       /\ (last'.op = "archive_thread" /\ OnDisk(last'.tid)) =>
             /\ last'.ret = Bool(TRUE)
             /\ Len(written'[last'.tid].events) = Len(written[last'.tid].events) + 1
             /\ IsPrefix(written[last'.tid].events, written'[last'.tid].events)
             /\ Get(written'[last'.tid].events[Len(written'[last'.tid].events)], K("event")) = Str(THREAD_ARCHIVED)
       /\ (last'.op = "get_thread" /\ OnDisk(last'.tid)) =>
             /\ "events" \in DOMAIN last'.ret
             /\ last'.ret.events = written[last'.tid].events
             /\ written[last'.tid].by = "archive_thread" => last'.ret.status = Str(K("archived"))]_vars

\* the positions at which a handler stands in the list of an event type
Subscriptions(handlers, event_type, handler) ==
    {i \in 1..Len(OrDefault(handlers, event_type, <<>>)) : handlers[event_type][i] = handler}
\* the list of an event type without a handler
Others(handlers, event_type, handler) ==
    SelectSeq(OrDefault(handlers, event_type, <<>>), LAMBDA g : g # handler)

\* C32: a call that takes a subscription of handler h away from an event type
\* leaves h no subscription to it and every other subscriber where it was,
\* and a publish starts exactly the handlers the event type then has: so no
\* publish after the unsubscribe invokes h, and each invokes all the others.
C32_UnsubscribedNotInvoked ==
    [][/\ \A h \in Subscribers :
             Cardinality(Subscriptions(_handlers', USER_CREATE, h)) < Cardinality(Subscriptions(_handlers, USER_CREATE, h))
             => /\ Subscriptions(_handlers', USER_CREATE, h) = {}
                /\ Others(_handlers', USER_CREATE, h) = Others(_handlers, USER_CREATE, h)
       /\ \A c \in Callers :
             (log' # log /\ calls'[c] # calls[c]) => calls'[c].handlers = HandlersOf(calls'[c].event_type)]_vars

\* C34: a step whose repair call has returned params that the schema
\* registered for its target event still rejects never has a handler of the
\* target event started; it ends with the ValidationError recorded on its
\* event, and the run it belongs to returns a result with success false.
C34_RepairStillInvalidFails ==
    \A r \in Runs : \A i \in Items(r) : \A j \in Members(r, i) :
        LET step == run[r].steps[i][j]
        IN (/\ step.repairs = 1
            /\ step.completed # None
            /\ step.schema.has
            /\ ~Validate(step.schema.s, step.ip).ok)
           => /\ step.at \in {"publish", "done"}
              /\ step.outcomes = <<>>
              /\ step.at = "done" =>
                    /\ step.ce.error # None
                    /\ step.ce.error.type = "ValidationError"
                    /\ step.ce.result = None
              /\ run[r].pc # "raised"
              /\ run[r].pc = "done" => ~run[r].ret.success

\* C35: a step whose target event has no registered schema makes no repair
\* call, and publishes its target event once, with the params it had when it
\* came to the validation of line 141 and the chain fields.
C35_NoSchemaUnvalidated ==
    \A r \in Runs : \A i \in Items(r) : \A j \in Members(r, i) :
        LET step == run[r].steps[i][j]
        IN (step.checked # None /\ ~step.schema.has)
           => /\ step.repairs = 0
              /\ step.at \in {"publish", "w_publish", "published", "done"}
              /\ step.at # "publish" =>
                    /\ step.publishes = 1
                    /\ step.published = Dict(MapUpdate(step.checked.d, ChainFields(run[r].thread_id)))

\* a step that has ended with an error or was skipped, and one that has
\* published its target event and ended with the result
EndedBadly(step) ==
    \/ step.at = "raised"
    \/ step.at = "done" /\ (step.ce.error # None \/ HasKey(step.ce.result, K("skipped")))
EndedWell(step) == step.at = "done" /\ step.ce.error = None /\ step.publishes = 1

\* C36: the transition with which a step ends with an error or skipped leaves
\* every context as it was; and once a step of a run has ended so, the result
\* of every earlier step of the run that ended well, and whose event no other
\* step of the run that ended well has targeted since, still resolves in the
\* context of the executor's interpolator to the value that step recorded.
C36_FailedStepLeavesContext ==
    /\ [][\A r \in Runs : \A i \in Items(r) : \A j \in Members(r, i) :
             (~EndedBadly(run[r].steps[i][j]) /\ EndedBadly(run'[r].steps[i][j])) => contexts' = contexts]_vars
    /\ [](\A r \in Runs : \A i \in Items(r) : \A j \in Members(r, i) :
             EndedBadly(run[r].steps[i][j]) =>
                \A i0 \in 1..(i - 1) : \A j0 \in Members(r, i0) :
                    LET earlier == run[r].steps[i0][j0]
                    IN (/\ EndedWell(earlier)
                        /\ \A i1 \in i0..Len(run[r].chain) : \A j1 \in Members(r, i1) :
                              (<<i1, j1>> # <<i0, j0>> /\ EndedWell(run[r].steps[i1][j1]))
                              => run[r].steps[i1][j1].ce.event # earlier.ce.event)
                       => _resolve_path(contexts[_interpolator], earlier.ce.event \o <<".", "result">>)
                             = Ok(earlier.ce.result))

\* a step that has started and has neither returned nor raised
Executing(step) == step.at \notin {"new", "done", "raised"}

\* C33: a call of execute_chain ends only by returning a result, never by
\* raising, and when it has returned no step of its run, member of a
\* parallel group or not, is still executing.
C33_RunReturnsResult ==
    \A r \in Runs :
        /\ run[r].pc # "raised"
        /\ run[r].pc = "done" =>
              /\ run[r].ret.k = "result"
              /\ \A i \in Items(r) : \A j \in Members(r, i) : ~Executing(run[r].steps[i][j])

\* a step is executed once _execute_single has built its chain event (line
\* 113), which a step without an event name never does
Executed(step) == Started(step) /\ step.spec.has_event

\* the positions <<i, j>> of the executed steps of the chain elements 1..i, in
\* chain order, the members of a group in the order the chain lists them
RECURSIVE ExecutedThrough(_, _)
ExecutedThrough(r, i) ==
    IF i = 0 THEN <<>>
    ELSE ExecutedThrough(r, i - 1)
         \o SelectSeq([j \in Members(r, i) |-> <<i, j>>], LAMBDA at : Executed(run[r].steps[at[1]][at[2]]))

\* C37: the events of a returned result are the chain events of the executed
\* steps, one per step, in chain order, the members of a parallel group at
\* the group's position in the order the chain lists them.
C37_OneEventPerStepInOrder ==
    \A r \in Runs :
        run[r].pc = "done" =>
            LET executed == ExecutedThrough(r, Len(run[r].chain))
                events == run[r].ret.events
            IN /\ Len(events) = Len(executed)
               /\ \A k \in 1..Len(executed) :
                     events[k] = run[r].steps[executed[k][1]][executed[k][2]].ce

----------------------------------------------------------------------------
(* Thread as the executor reads it: a thread with stored events, events    *)
(* added to it, and the context it hands to a run (thread_manager.py 28-79) *)

SUMMARY_MAKE == <<"summary", ".", "make">>
TOOLS_NOW_UTC == <<"tools", ".", "now", ".", "utc">>

\* the events a thread holds or is given: event name and result (a result
\* that is empty, a name without a dot, a name under the name of another
\* event, a name under a key of the context)
RecentEvents ==
    { <<TOOLS_NOW, Num(1)>>, <<TOOLS_NOW, Num(2)>>, <<TOOLS_NOW, EmptyDict>>,
      <<USER_CREATE, Num(1)>>, <<K("tools"), Num(1)>>,
      <<TOOLS_NOW_UTC, Num(1)>>, <<SUMMARY_MAKE, Num(1)>> }
\* the event that fills a thread between its oldest and its newest events
FillerEvent == <<NOTE_ADD, Num(1)>>
\* how many of them a stored thread has
Fillers == {0, ContextWindow - 2, ContextWindow - 1, ContextWindow}
\* the number of events a stored thread has before the filling ones, and the
\* number of events added to it
MaxOld == 1
MaxRecent == 2

EventLists(n) == UNION {[1..k -> RecentEvents] : k \in 0..n}

\* Thread(thread_id=..., summary=..., events=[...])
StoredThread(thread_id, events) ==
    [thread_id |-> Str(K(thread_id)), summary |-> Str(K("sum")), status |-> Str(K("active")),
     created_at |-> Timestamp(0), updated_at |-> Timestamp(0),
     events |-> [i \in 1..Len(events) |-> NewThreadEvent(events[i][1], events[i][2], Timestamp(0))],
     metadata |-> EmptyDict]

\* thread.add_event(event, result) (39-51)
ThreadAddEvent(event, result) ==
    /\ interp.op # "none"
    /\ clock < MaxRecent
    /\ clock' = clock + 1
    /\ interp' = [op |-> "add_event", thread |-> add_event(interp.thread, event, result, clock + 1), out |-> None]
    /\ UNCHANGED <<_handlers, _schemas, _event_history, disk, _cache, calls, log, last, written>>
    /\ UNCHANGED <<chainvars, workvars, _persistence_file, registered>>

\* thread.get_context() (53-79)
ThreadGetContext ==
    /\ interp.op # "none"
    /\ interp' = [op |-> "get_context", thread |-> interp.thread, out |-> get_context(interp.thread)]
    /\ UNCHANGED <<_handlers, _schemas, _event_history, disk, _cache, calls, log, clock, last, written>>
    /\ UNCHANGED <<chainvars, workvars, _persistence_file, registered>>

ThreadInit ==
    /\ _handlers = EmptyMap
    /\ _schemas = EmptyMap
    /\ _event_history = <<>>
    /\ disk = EmptyMap
    /\ _cache = EmptyMap
    /\ lock = ""
    /\ _interpolator = ""
    /\ contexts = [r \in Runs |-> EmptyDict]
    /\ cur = NoTask
    /\ run = [r \in Runs |-> IdleRun]
    /\ calls = [c \in Callers |-> IdleCall]
    /\ log = <<>>
    /\ clock = 0
    /\ last = NoCall
    /\ written = EmptyMap
    /\ WorkIdle
    /\ _persistence_file = None
    /\ registered = EmptyMap
    /\ \E old \in EventLists(MaxOld), n \in Fillers :
          interp = [op |-> "new", thread |-> StoredThread("t1", old \o [i \in 1..n |-> FillerEvent]), out |-> None]

ThreadNext ==
    \/ \E e \in RecentEvents : ThreadAddEvent(e[1], e[2])
    \/ ThreadGetContext

ThreadSpec == ThreadInit /\ [][ThreadNext]_vars

\* the events of self.events[-10:]
Window(events) == SubSeq(events, IF Len(events) > ContextWindow THEN Len(events) - ContextWindow + 1 ELSE 1, Len(events))
NameOf(event) == Get(event, K("event")).s
ResultOf(event) == Get(event, K("result"))
Dotted(name) == FindChar(name, ".", 1) <= Len(name)
\* the positions of the events of name that have a result
WithResult(events, name) == {i \in 1..Len(events) : NameOf(events[i]) = name /\ Truthy(ResultOf(events[i]))}
Max(S) == CHOOSE x \in S : \A y \in S : y <= x

\* C38: the context a thread returns has, for every dotted event name with a
\* non-empty result among the thread's last 10 events, the result of the
\* latest such event at <name>.result, and nothing at <name>.result for a
\* dotted name that has a result only in events older than the last 10.
C38_ContextOfRecentEvents ==
    interp.op = "get_context" =>
        LET events == interp.thread.events
            recent == Window(events)
        IN /\ interp.out.ok
           /\ \A i \in 1..Len(events) :
                 LET name == NameOf(events[i])
                     leaf == _resolve_path(interp.out.v, name \o <<".", "result">>)
                 IN (Dotted(name) /\ WithResult(events, name) # {}) =>
                       IF WithResult(recent, name) # {}
                       THEN leaf = Ok(ResultOf(recent[Max(WithResult(recent, name))]))
                       ELSE ~leaf.ok

----------------------------------------------------------------------------
(* execute_chain on chains with a parallel group whose members publish the *)
(* same event (event_chain.py 44-198)                                      *)

CreateBareIf == Step(USER_CREATE, EmptyDict, Str(K("ok?")))

GroupChains(r) ==
    IF r = "A"
    THEN { <<Group(<<Now, Now>>), One(CreateBareIf)>> }
    ELSE { <<One(Now)>> }

\* execute_chain(chain, thread_id) is called
GroupStartRun(r) ==
    /\ cur = NoTask
    /\ run[r].pc = "idle"
    /\ \E chain \in GroupChains(r), tid \in ThreadIds(r), expired \in BOOLEAN :
         LET rr == [IdleRun EXCEPT !.chain = chain, !.thread_id = tid,
                        !.steps = [i \in 1..Len(chain) |->
                                      [j \in 1..Len(chain[i].steps) |-> NewStep(chain[i].steps[j])]]]
         IN IF lock # ""
            THEN /\ ~expired
                 /\ run' = [run EXCEPT ![r] = [rr EXCEPT !.pc = "lockwait"]]
                 /\ UNCHANGED <<_cache, lock, contexts, _interpolator, cur>>
            ELSE /\ (expired => tid \in DOMAIN _cache)
                 /\ LoadLocked(r, rr, expired)
    /\ UNCHANGED <<_handlers, _schemas, _event_history, disk>>
    /\ UNCHANGED <<callvars, sidevars, registered>>

GroupNext ==
    \/ \E r \in Runs : GroupStartRun(r)
    \/ \E r \in Runs : LockAcquired(r)
    \/ \E r \in Runs : ReadDone(r)
    \/ \E r \in Runs : Loop(r)
    \/ \E r \in Runs : AfterStep(r)
    \/ \E r \in Runs : Gathered(r)
    \/ \E r \in Runs, i \in 1..MaxItems, j \in 1..MaxMembers : SegBegin(r, i, j)
    \/ \E r \in Runs, i \in 1..MaxItems, j \in 1..MaxMembers : SegDecided(r, i, j)
    \/ \E r \in Runs, i \in 1..MaxItems, j \in 1..MaxMembers : SegValidate(r, i, j)
    \/ \E r \in Runs, i \in 1..MaxItems, j \in 1..MaxMembers : SegRepaired(r, i, j)
    \/ \E r \in Runs, i \in 1..MaxItems, j \in 1..MaxMembers : SegPublish(r, i, j)
    \/ \E r \in Runs, i \in 1..MaxItems, j \in 1..MaxMembers : SegPublished(r, i, j)
    \/ \E r \in Runs, i \in 1..MaxItems, j \in 1..MaxMembers, h \in 1..MaxHandlers : HandlerReturn(r, i, j, h)
    \/ \E r \in Runs, i \in 1..MaxItems, j \in 1..MaxMembers : Wake(r, i, j)

GroupSpec == Init /\ [][GroupNext]_vars

\* what {<event>.result} resolves to in the context of run r
Leaf(ctxs, r, event) == _resolve_path(ctxs[r], event \o <<".", "result">>)
\* member j of element i has a sibling with the same event name
Twin(r, i, j) ==
    /\ run[r].chain[i].parallel
    /\ \E m \in Members(r, i) : m # j /\ run[r].chain[i].steps[m].event = run[r].chain[i].steps[j].event

\* C39: when a member of a parallel group that has a sibling of the same event
\* name returns from its publish without error, the leaf of that name in the
\* context of its run is that member's whole result, and the leaf changes at
\* no other moment while the group runs: after the group it is the result of
\* the member whose publish returned last.
C39_LastPublishWins ==
    [][\A r \in Runs : \A i \in Items(r) : \A j \in Members(r, i) :
          Twin(r, i, j) =>
             LET before == run[r].steps[i][j]
                 after == run'[r].steps[i][j]
                 event == run[r].chain[i].steps[j].event
             IN /\ (~EndedWell(before) /\ EndedWell(after)) => Leaf(contexts', r, event) = Ok(after.ce.result)
                /\ (run[r].idx = i /\ run'[r].idx = i /\ Leaf(contexts', r, event) # Leaf(contexts, r, event)) =>
                      \E m \in Members(r, i) : ~EndedWell(run[r].steps[i][m]) /\ EndedWell(run'[r].steps[i][m])]_vars

\* what {<event>.result} resolves to in a context: a value, or nothing when
\* _resolve_path raises
Unresolved == [ok |-> FALSE]
ResultLeaf(context, event) ==
    LET value == _resolve_path(context, event \o <<".", "result">>)
    IN IF value.ok THEN value ELSE Unresolved

\* an event name without an empty part
WellFormed(event) == \A i \in 1..Len(Split(event)) : Split(event)[i] # <<>>

\* C40: add_result(n, v) leaves what {m.result} resolves to as it was for
\* every well-formed event name m other than n, the names that n is a dotted
\* prefix of and the dotted prefixes of n included.
C40_AddResultFrame ==
    [][interp'.op = "add_result" =>
          \A m \in InterpNames \ {interp'.event_name} :
              WellFormed(m) => ResultLeaf(interp'.context, m) = ResultLeaf(interp.context, m)]_vars

====
